---------------------------- MODULE Spec2Model ----------------------------
(***************************************************************************)
(* State-machine model of the cache store (src/src/cache_manager.py), of   *)
(* the quota monitor and decorators (src/src/rate_limiter.py) and of the   *)
(* statistics collector (src/src/github_stats.py) of github_pr_automation. *)
(*                                                                         *)
(* Several specifications share the module.  CacheSpec drives the methods  *)
(* of CacheManager against a directory of cache files and a file-system    *)
(* clock; CrashSpec adds a set that is terminated part-way; QuotaSpec      *)
(* drives RateLimitHandler against the quota endpoint and the wall clock;  *)
(* RetrySpec drives the wrapper of with_retry around a function that fails *)
(* or returns; StatsSpec drives the decorated operations of a statistics   *)
(* run; IssuesSpec drives count_issues; ReposSpec drives get_all_repos,    *)
(* and ReposFairSpec adds the fairness of its steps; PullsSpec drives      *)
(* count_pull_requests, CommitsSpec count_commits_last_year, AggregateSpec *)
(* the per-repository operations of calculate_all_stats, PublishSpec       *)
(* update_profile_readme, and MainSpec the main script                     *)
(* (src/scripts/update_stats.py) around it.  Each leaves the variables of  *)
(* the other components unchanged.                                         *)
(***************************************************************************)
EXTENDS Integers, Sequences, FiniteSets, TLC

VARIABLES
    cache_dir,        \* the *.json files of the cache directory, by file stem
    fs_clock,         \* file-system / wall clock of the cache, in hours
    hist,             \* per key: the most recent set since the last delete/clear
    last,             \* the last CacheManager call: arguments, locals, result
    now,              \* wall clock of the quota monitor, in seconds
    min_remaining,    \* RateLimitHandler.min_remaining
    last_check,       \* RateLimitHandler._last_check
    last_rate_info,   \* RateLimitHandler._last_rate_info
    pc,               \* position of the wait_if_needed caller
    call,             \* the wait_if_needed / check_rate_limit call in progress or last finished
    wrapper_pc,       \* position of the caller of a function decorated with with_retry
    wrapper,          \* the call of with_retry's wrapper in progress or last finished
    run,              \* the call of a GitHubStatsPrivate method in progress or last finished
    tally,            \* the call of count_issues in progress or last finished
    fetch,            \* the call of get_all_repos in progress or last finished
    pulls,            \* the call of count_pull_requests in progress or last finished
    commits,          \* the call of count_commits_last_year in progress or last finished
    agg,              \* the run of calculate_all_stats over the per-repository operations
    publish,          \* the call of update_profile_readme in progress or last finished
    main              \* the run of the main script, and its output file

cacheVars == <<cache_dir, fs_clock, hist, last>>
quotaVars == <<now, min_remaining, last_check, last_rate_info, pc, call>>
retryVars == <<wrapper_pc, wrapper>>
statsVars == <<run>>
issueVars == <<tally>>
fetchVars == <<fetch>>
pullVars == <<pulls>>
commitVars == <<commits>>
aggVars == <<agg>>
publishVars == <<publish>>
mainVars == <<main>>
vars == <<cache_dir, fs_clock, hist, last, now, min_remaining, last_check, last_rate_info, pc, call,
          wrapper_pc, wrapper, run, tally, fetch, pulls, commits, agg, publish, main>>
exceptCache ==
    <<quotaVars, retryVars, statsVars, issueVars, fetchVars,
      pullVars, commitVars, aggVars, publishVars, mainVars>>
exceptQuota ==
    <<cacheVars, retryVars, statsVars, issueVars, fetchVars,
      pullVars, commitVars, aggVars, publishVars, mainVars>>
exceptRetry ==
    <<cacheVars, quotaVars, statsVars, issueVars, fetchVars,
      pullVars, commitVars, aggVars, publishVars, mainVars>>
exceptQuotaAndStats ==
    <<cacheVars, retryVars, issueVars, fetchVars, pullVars,
      commitVars, aggVars, publishVars, mainVars>>
exceptIssues ==
    <<cacheVars, quotaVars, retryVars, statsVars, fetchVars,
      pullVars, commitVars, aggVars, publishVars, mainVars>>
exceptCacheAndFetch ==
    <<quotaVars, retryVars, statsVars, issueVars, pullVars,
      commitVars, aggVars, publishVars, mainVars>>
exceptPulls ==
    <<cacheVars, quotaVars, retryVars, statsVars, issueVars,
      fetchVars, commitVars, aggVars, publishVars, mainVars>>
exceptCommits ==
    <<cacheVars, quotaVars, retryVars, statsVars, issueVars,
      fetchVars, pullVars, aggVars, publishVars, mainVars>>
exceptAggregate ==
    <<cacheVars, quotaVars, retryVars, statsVars, issueVars,
      fetchVars, pullVars, commitVars, publishVars, mainVars>>
exceptPublish ==
    <<cacheVars, quotaVars, retryVars, statsVars, issueVars,
      fetchVars, pullVars, commitVars, aggVars, mainVars>>
exceptPublishAndMain ==
    <<cacheVars, quotaVars, retryVars, statsVars, issueVars,
      fetchVars, pullVars, commitVars, aggVars>>

-----------------------------------------------------------------------------
(* Bounds of the model.                                                    *)

\* The cache clock, in hours, stops at MaxTime.
MaxTime == 2
\* get is called with max_age_hours in 0..MaxAgeHours.
MaxAgeHours == 1
\* No quota call starts and no idle second passes after MaxClock seconds.
MaxClock == 6
\* The request to the quota endpoint takes 0..MaxLatency seconds.
MaxLatency == 1
\* with_retry is configured with max_retries in 0..MaxRetries.
MaxRetries == 3
\* A method of GitHubStatsPrivate sends at most MaxRequests requests per call.
MaxRequests == 2
\* An issue listing holds at most MaxItems items.
MaxItems == 5
\* count_issues is called with at most MaxRepos repositories.
MaxRepos == 2
\* The account owns at most MaxOwned repositories.
MaxOwned == 3
\* The pull requests of a repository are at most this many.
MaxPulls == 3
\* stats.max_commits_pages is at most MaxPages.
MaxPages == 2
\* A page of commits holds at most MaxPageLen commits.
MaxPageLen == 2
\* The answer of a repository to a per-repository operation holds at most
\* MaxUnits items.
MaxUnits == 2

-----------------------------------------------------------------------------
(* Python values that reach the cache, and their JSON text.                *)

PyNone == [tag |-> "none", n |-> 0, s |-> "", items |-> <<>>]
PyBool(b) == [tag |-> "bool", n |-> IF b THEN 1 ELSE 0, s |-> "", items |-> <<>>]
PyInt(i) == [tag |-> "int", n |-> i, s |-> "", items |-> <<>>]
PyStr(str) == [tag |-> "str", n |-> 0, s |-> str, items |-> <<>>]
PyList(xs) == [tag |-> "list", n |-> 0, s |-> "", items |-> xs]
PyTuple(xs) == [tag |-> "tuple", n |-> 0, s |-> "", items |-> xs]
\* A dict, as the sequence <<key1, value1, key2, value2, ...>>.
PyDict(kvs) == [tag |-> "dict", n |-> 0, s |-> "", items |-> kvs]
\* A set: a type json has no encoder for.
PySet == [tag |-> "set", n |-> 0, s |-> "", items |-> <<>>]
\* A reference back to the container that holds it (a circular structure).
PyCycle == [tag |-> "cycle", n |-> 0, s |-> "", items |-> <<>>]


\* The payloads the model passes to set.
Payloads ==
    { PyList(<<PyInt(1), PyStr("a")>>),
      PyDict(<<PyInt(1), PyStr("a")>>),
      PyList(<<PyInt(1), PySet>>),
      PyList(<<PyInt(1), PyCycle>>) }

\* The most chunks json.dump writes for a payload of the model.
MaxChunks == 6

\* The integers whose decimal text the JSON reader has to recognise.
IntLiterals == 0..9

Tok(k, s) == [k |-> k, s |-> s]

\* A dict key as json writes it: a str as it is, an int as its decimal text.
KeyText(k) == IF k.tag = "int" THEN ToString(k.n) ELSE k.s

RECURSIVE iterencode(_), iterencode_list(_, _, _), iterencode_dict(_, _, _)

\* json.dump streams the chunks of JSONEncoder.iterencode to the file: the
\* result is the text written so far and the exception that stopped it, if
\* any.  Whitespace (indent=2) is left out of the token text.
iterencode(o) ==
    CASE o.tag = "int" -> [toks |-> <<Tok("num", ToString(o.n))>>, exc |-> "none"]
      [] o.tag = "str" -> [toks |-> <<Tok("str", o.s)>>, exc |-> "none"]
      [] o.tag = "bool" -> [toks |-> <<Tok(IF o.n = 1 THEN "true" ELSE "false", "")>>, exc |-> "none"]
      [] o.tag = "none" -> [toks |-> <<Tok("null", "")>>, exc |-> "none"]
      [] o.tag \in {"list", "tuple"} ->
            IF o.items = <<>>
            THEN [toks |-> <<Tok("[", ""), Tok("]", "")>>, exc |-> "none"]
            ELSE iterencode_list(o.items, 1, <<Tok("[", "")>>)
      [] o.tag = "dict" ->
            IF o.items = <<>>
            THEN [toks |-> <<Tok("{", ""), Tok("}", "")>>, exc |-> "none"]
            ELSE iterencode_dict(o.items, 1, <<Tok("{", "")>>)
      [] o.tag = "cycle" -> [toks |-> <<>>, exc |-> "ValueError"]
      [] OTHER -> [toks |-> <<>>, exc |-> "TypeError"]

iterencode_list(xs, i, acc) ==
    IF i > Len(xs)
    THEN [toks |-> Append(acc, Tok("]", "")), exc |-> "none"]
    ELSE LET buf == IF i > 1 THEN <<Tok(",", "")>> ELSE <<>>
             r == iterencode(xs[i])
         IN  IF r.exc # "none"
             THEN [toks |-> acc \o buf \o r.toks, exc |-> r.exc]
             ELSE iterencode_list(xs, i + 1, acc \o buf \o r.toks)

iterencode_dict(kvs, i, acc) ==
    IF i > Len(kvs)
    THEN [toks |-> Append(acc, Tok("}", "")), exc |-> "none"]
    ELSE LET sep == IF i > 1 THEN <<Tok(",", "")>> ELSE <<>>
             head == acc \o sep \o <<Tok("str", KeyText(kvs[i])), Tok(":", "")>>
             r == iterencode(kvs[i + 1])
         IN  IF r.exc # "none"
             THEN [toks |-> head \o r.toks, exc |-> r.exc]
             ELSE iterencode_dict(kvs, i + 2, head \o r.toks)

json_dump(obj) == iterencode(obj)

ParseInt(s) == CHOOSE i \in IntLiterals : ToString(i) = s

ParseFail == [ok |-> FALSE, val |-> PyNone, next |-> 0]

RECURSIVE parse_value(_, _), parse_array(_, _, _), parse_object(_, _, _)

\* json.load: a recursive-descent reader of the token text.  The result is
\* the value and the position after it, or a failure (JSONDecodeError).
parse_value(t, i) ==
    IF i > Len(t) THEN ParseFail
    ELSE CASE t[i].k = "num" ->
                IF \E n \in IntLiterals : ToString(n) = t[i].s
                THEN [ok |-> TRUE, val |-> PyInt(ParseInt(t[i].s)), next |-> i + 1]
                ELSE ParseFail
           [] t[i].k = "str" -> [ok |-> TRUE, val |-> PyStr(t[i].s), next |-> i + 1]
           [] t[i].k = "true" -> [ok |-> TRUE, val |-> PyBool(TRUE), next |-> i + 1]
           [] t[i].k = "false" -> [ok |-> TRUE, val |-> PyBool(FALSE), next |-> i + 1]
           [] t[i].k = "null" -> [ok |-> TRUE, val |-> PyNone, next |-> i + 1]
           [] t[i].k = "[" ->
                IF i + 1 <= Len(t) /\ t[i + 1].k = "]"
                THEN [ok |-> TRUE, val |-> PyList(<<>>), next |-> i + 2]
                ELSE parse_array(t, i + 1, <<>>)
           [] t[i].k = "{" ->
                IF i + 1 <= Len(t) /\ t[i + 1].k = "}"
                THEN [ok |-> TRUE, val |-> PyDict(<<>>), next |-> i + 2]
                ELSE parse_object(t, i + 1, <<>>)
           [] OTHER -> ParseFail

parse_array(t, i, acc) ==
    LET r == parse_value(t, i)
    IN  IF ~r.ok \/ r.next > Len(t) THEN ParseFail
        ELSE IF t[r.next].k = "," THEN parse_array(t, r.next + 1, Append(acc, r.val))
        ELSE IF t[r.next].k = "]"
             THEN [ok |-> TRUE, val |-> PyList(Append(acc, r.val)), next |-> r.next + 1]
        ELSE ParseFail

parse_object(t, i, acc) ==
    IF i + 1 > Len(t) \/ t[i].k # "str" \/ t[i + 1].k # ":" THEN ParseFail
    ELSE LET r == parse_value(t, i + 2)
             kvs == acc \o <<PyStr(t[i].s), r.val>>
         IN  IF ~r.ok \/ r.next > Len(t) THEN ParseFail
             ELSE IF t[r.next].k = "," THEN parse_object(t, r.next + 1, kvs)
             ELSE IF t[r.next].k = "}"
                  THEN [ok |-> TRUE, val |-> PyDict(kvs), next |-> r.next + 1]
             ELSE ParseFail

json_load(text) ==
    LET r == parse_value(text, 1)
    IN  IF r.ok /\ r.next = Len(text) + 1
        THEN [ok |-> TRUE, val |-> r.val]
        ELSE [ok |-> FALSE, val |-> PyNone]

-----------------------------------------------------------------------------
(* CacheManager.                                                           *)

\* The string keys the callers use (f'repos_{username}').
Keys == {"repos_alice", "repos_bob"}

\* A digest on which the keys of the model collide.
md5_colliding(key) == "504bece2cad1dd7abb8ee67611226254"

\* hashlib.md5(key.encode()).hexdigest(), tabulated for the keys of the model.
_get_cache_key(key) ==
    CASE key = "repos_alice" -> "504bece2cad1dd7abb8ee67611226254"
      [] key = "repos_bob" -> "bc8fb897fa1222e751ca183a0df1ed73"

\* The stems of the *.json files the cache directory can hold.
CacheFiles == {_get_cache_key(k) : k \in Keys}

NoFile == [exists |-> FALSE, text |-> <<>>, mtime |-> 0]
File(text, mtime) == [exists |-> TRUE, text |-> text, mtime |-> mtime]

MaxAges == 0..MaxAgeHours

\* timedelta(hours=max_age_hours), in the unit of the clock.
timedelta_hours(h) == h

NoHist == [has |-> FALSE, data |-> PyNone, ok |-> FALSE, at |-> 0,
           has_good |-> FALSE, good |-> PyNone, interrupted |-> FALSE]

\* A finished CacheManager call.  existed is cache_file.exists() when the call
\* started; n_before is the number of cache files then; exc is the exception
\* the call raised, if any; at is the time of the call.
Call(op, key, max_age_hours, existed, ret, exc) ==
    [op |-> op, key |-> key, max_age_hours |-> max_age_hours,
     existed |-> existed, ret |-> ret, exc |-> exc,
     at |-> fs_clock,
     n_before |-> Cardinality({f \in CacheFiles : cache_dir[f].exists})]

\* get_cache_info(), of which the model keeps the file count.
get_cache_info ==
    [total_files |-> Cardinality({f \in CacheFiles : cache_dir[f].exists})]

CacheInit ==
    /\ cache_dir = [f \in CacheFiles |-> NoFile]
    /\ fs_clock = 0
    /\ hist = [k \in Keys |-> NoHist]
    /\ last = [op |-> "init", key |-> "", max_age_hours |-> 0,
               existed |-> FALSE, ret |-> PyNone, exc |-> "none",
               at |-> 0, n_before |-> 0]

\* An unlink that leaves the file in place.
unlink_skipped(dir, cache_file) == dir

\* cache_file.unlink()
unlink(dir, cache_file) == [dir EXCEPT ![cache_file] = NoFile]

\* Which exceptions of json.dump the except clause of set catches.
set_catches(exc) == exc \in {"TypeError", "IOError"}

set(key, data) ==
    LET cache_file == _get_cache_key(key)
        w == json_dump(data)
    IN  \* open(cache_file, 'w') truncates; the with block closes the file on
        \* the way out, so what json.dump wrote before failing stays in it.
        /\ cache_dir' = [cache_dir EXCEPT ![cache_file] = File(w.toks, fs_clock)]
        /\ last' = Call("set", key, 0, cache_dir[cache_file].exists,
                        IF w.exc = "none" THEN PyBool(TRUE)
                        ELSE IF set_catches(w.exc) THEN PyBool(FALSE) ELSE PyNone,
                        IF w.exc = "none" \/ set_catches(w.exc) THEN "none" ELSE w.exc)
        /\ hist' = [hist EXCEPT ![key] =
                        [has |-> TRUE, data |-> data, ok |-> w.exc = "none", at |-> fs_clock,
                         has_good |-> (w.exc = "none") \/ hist[key].has_good,
                         good |-> IF w.exc = "none" THEN data ELSE hist[key].good,
                         interrupted |-> FALSE]]
        /\ UNCHANGED fs_clock

\* The process is terminated inside set, after open(cache_file, 'w') and
\* before the with block is left: the file holds the first n chunks that
\* json.dump wrote, none to all of them.  The next run starts with a new
\* CacheManager on the same directory.
set_interrupted(key, data, n) ==
    LET cache_file == _get_cache_key(key)
        w == json_dump(data)
    IN  /\ n \in 0..Len(w.toks)
        /\ cache_dir' = [cache_dir EXCEPT ![cache_file] = File(SubSeq(w.toks, 1, n), fs_clock)]
        /\ last' = Call("set_interrupted", key, 0, cache_dir[cache_file].exists,
                        PyNone, "terminated")
        /\ hist' = [hist EXCEPT ![key] =
                        [has |-> TRUE, data |-> data,
                         ok |-> w.exc = "none" /\ n = Len(w.toks), at |-> fs_clock,
                         has_good |-> hist[key].has_good, good |-> hist[key].good,
                         interrupted |-> TRUE]]
        /\ UNCHANGED fs_clock

\* The age test with >= in place of >.
is_expired_inclusive(file_age, max_age_hours) == file_age >= timedelta_hours(max_age_hours)

\* file_age > timedelta(hours=max_age_hours)
is_expired(file_age, max_age_hours) == file_age > timedelta_hours(max_age_hours)

\* A get without an except clause.
get_catches_nothing(exc) == FALSE

\* An except clause of get that names IOError alone.
get_catches_io_only(exc) == exc \in {"IOError"}

\* Which exceptions of json.load the except clause of get catches.
get_catches(exc) == exc \in {"JSONDecodeError", "IOError"}

get(key, max_age_hours) ==
    LET cache_file == _get_cache_key(key)
        entry == cache_dir[cache_file]
        file_age == fs_clock - entry.mtime
        r == json_load(entry.text)
    IN  /\ IF ~entry.exists
           THEN /\ last' = Call("get", key, max_age_hours, FALSE, PyNone, "none")
                /\ UNCHANGED cache_dir
           ELSE IF is_expired(file_age, max_age_hours)
           THEN /\ cache_dir' = unlink(cache_dir, cache_file)
                /\ last' = Call("get", key, max_age_hours, TRUE, PyNone, "none")
           ELSE IF r.ok
           THEN /\ last' = Call("get", key, max_age_hours, TRUE, r.val, "none")
                /\ UNCHANGED cache_dir
           ELSE IF get_catches("JSONDecodeError")
           THEN /\ cache_dir' = unlink(cache_dir, cache_file)
                /\ last' = Call("get", key, max_age_hours, TRUE, PyNone, "none")
           ELSE /\ last' = Call("get", key, max_age_hours, TRUE, PyNone, "JSONDecodeError")
                /\ UNCHANGED cache_dir
        /\ UNCHANGED <<fs_clock, hist>>

delete(key) ==
    LET cache_file == _get_cache_key(key)
    IN  /\ cache_dir' = IF cache_dir[cache_file].exists
                         THEN unlink(cache_dir, cache_file) ELSE cache_dir
        /\ last' = Call("delete", key, 0, cache_dir[cache_file].exists,
                        PyBool(cache_dir[cache_file].exists), "none")
        /\ hist' = [hist EXCEPT ![key] = NoHist]
        /\ UNCHANGED fs_clock

\* A glob whose pattern matches no cache file.
glob_wrong_pattern(dir) == {}

\* The files self.cache_dir.glob('*.json') yields.
glob_json(dir) == {f \in CacheFiles : dir[f].exists}

RECURSIVE clear_loop(_, _, _)

\* The loop of clear over the globbed files: the directory and the count
\* after it.  unlink on a file the process wrote itself does not fail.
clear_loop(dir, todo, count) ==
    IF todo = {} THEN [dir |-> dir, count |-> count]
    ELSE LET cache_file == CHOOSE f \in todo : TRUE
         IN  clear_loop(unlink(dir, cache_file), todo \ {cache_file}, count + 1)

clear ==
    LET r == clear_loop(cache_dir, glob_json(cache_dir), 0)
    IN  /\ cache_dir' = r.dir
        /\ last' = Call("clear", "", 0, FALSE, PyInt(r.count), "none")
        /\ hist' = [k \in Keys |-> NoHist]
        /\ UNCHANGED fs_clock

\* Time passes between two calls.
Tick ==
    /\ fs_clock < MaxTime
    /\ fs_clock' = fs_clock + 1
    /\ UNCHANGED <<cache_dir, hist, last>>

-----------------------------------------------------------------------------
(* RateLimitHandler.                                                       *)

\* if time_since_check < 5
DebounceSeconds == 5
\* self._wait_with_progress(wait_seconds + 5)
GraceSeconds == 5
\* 'remaining': 5000, 'limit': 5000 of the fallback status
FallbackLimit == 5000

\* The values RateLimitHandler is constructed with: the configured default
\* and a threshold above the fallback status.
MinRemainingValues == {100, 6000}

None == [some |-> FALSE, t |-> 0]
Some(t) == [some |-> TRUE, t |-> t]

NoRateInfo == [some |-> FALSE, remaining |-> 0, limit |-> 0, reset |-> 0,
               reset_datetime |-> 0, used |-> 0]

\* What GET /rate_limit can come back with: a body whose resources.core
\* holds the four numbers, or a failure (requests.get raises, raise_for_status
\* raises, the body is not JSON or lacks a key).
OkResponses(t) ==
    { [kind |-> "ok", remaining |-> r, limit |-> 5000, reset |-> t + d, used |-> 5000 - r] :
        r \in {50, 200}, d \in {1, 3} }
FailedResponses ==
    { [kind |-> k, remaining |-> 0, limit |-> 0, reset |-> 0, used |-> 0] :
        k \in {"transport", "http_error", "malformed"} }
Responses(t) == OkResponses(t) \cup FailedResponses

\* A fallback status that reports an exhausted quota.
fallback_exhausted(t) ==
    [some |-> TRUE, remaining |-> 0, limit |-> FallbackLimit, reset |-> 0,
     reset_datetime |-> t + 1, used |-> FallbackLimit]

\* The status check_rate_limit returns from its except branch at time t.
fallback_rate_info(t) ==
    [some |-> TRUE, remaining |-> FallbackLimit, limit |-> FallbackLimit, reset |-> 0,
     reset_datetime |-> t, used |-> 0]

\* A check_rate_limit that records the fallback status like a measured one.
check_rate_limit_caches_fallback(resp, t) ==
    LET rate_info == IF resp.kind = "ok"
                     THEN [some |-> TRUE, remaining |-> resp.remaining, limit |-> resp.limit,
                           reset |-> resp.reset, reset_datetime |-> resp.reset,
                           used |-> resp.used]
                     ELSE fallback_rate_info(t)
    IN  [rate_info |-> rate_info, failed |-> resp.kind # "ok",
         _last_check |-> Some(t), _last_rate_info |-> rate_info]

\* check_rate_limit with the response resp, returning at time t: the status
\* returned and the two attributes after the call.
check_rate_limit_result(resp, t) ==
    IF resp.kind = "ok"
    THEN LET rate_info == [some |-> TRUE, remaining |-> resp.remaining, limit |-> resp.limit,
                           reset |-> resp.reset, reset_datetime |-> resp.reset,
                           used |-> resp.used]
         IN  [rate_info |-> rate_info, failed |-> FALSE,
              _last_check |-> Some(t), _last_rate_info |-> rate_info]
    ELSE [rate_info |-> fallback_rate_info(t), failed |-> TRUE,
          _last_check |-> last_check, _last_rate_info |-> last_rate_info]

\* A call of the handler.  started: when it began; prev_check and
\* prev_rate_info: _last_check and _last_rate_info then; requests: requests sent to the quota endpoint; checked_at: when
\* check_rate_limit returned; compared_at: when wait_seconds was computed;
\* sleeps: calls of time.sleep(1); ret: "none" until the call has returned.
NoCall ==
    [op |-> "none", force_check |-> FALSE, started |-> 0, prev_check |-> None,
     prev_rate_info |-> NoRateInfo, requests |-> 0, failed |-> FALSE, rate_info |-> NoRateInfo, checked_at |-> 0,
     compared_at |-> 0, wait_seconds |-> 0, end_time |-> 0, sleeps |-> 0,
     ret |-> "none", returned_at |-> 0]

QuotaInit ==
    /\ now = 0
    /\ min_remaining \in MinRemainingValues
    /\ last_check = None
    /\ last_rate_info = NoRateInfo
    /\ pc = "idle"
    /\ call = NoCall

\* A debounce that does not look at force_check.
debounced_despite_force(force_check, _last_check, t) ==
    _last_check.some /\ t - _last_check.t < DebounceSeconds

\* if not force_check and self._last_check: ... if time_since_check < 5
debounced(force_check, _last_check, t) ==
    ~force_check /\ _last_check.some /\ t - _last_check.t < DebounceSeconds

\* The wait test with >= 0 in place of > 0.
needs_wait_at_zero(rate_info, wait_seconds) ==
    rate_info.remaining < min_remaining /\ wait_seconds >= 0

\* if rate_info['remaining'] < self.min_remaining: ... if wait_seconds > 0
needs_wait(rate_info, wait_seconds) ==
    rate_info.remaining < min_remaining /\ wait_seconds > 0

\* A wait without the grace margin.
wait_duration_no_grace(wait_seconds) == wait_seconds

\* The argument wait_if_needed passes to _wait_with_progress.
wait_duration(wait_seconds) == wait_seconds + GraceSeconds

check_rate_limit(resp, latency) ==
    LET r == check_rate_limit_result(resp, now + latency)
    IN  /\ pc = "idle"
        /\ now < MaxClock
        /\ now' = now + latency
        /\ last_check' = r._last_check
        /\ last_rate_info' = r._last_rate_info
        /\ call' = [NoCall EXCEPT !.op = "check_rate_limit", !.started = now,
                        !.prev_check = last_check,
                        !.prev_rate_info = last_rate_info, !.requests = 1, !.failed = r.failed,
                        !.rate_info = r.rate_info, !.checked_at = now + latency,
                        !.ret = "rate_info", !.returned_at = now + latency]
        /\ UNCHANGED <<min_remaining, pc>>

\* wait_if_needed up to its return or to the first test of the loop of
\* _wait_with_progress; delay is the time between the return of
\* check_rate_limit and the datetime.now() of wait_seconds.
wait_if_needed(force_check, resp, latency, delay) ==
    /\ pc = "idle"
    /\ now < MaxClock
    /\ IF debounced(force_check, last_check, now)
       THEN /\ call' = [NoCall EXCEPT !.op = "wait_if_needed", !.force_check = force_check,
                            !.started = now, !.prev_check = last_check,
                            !.prev_rate_info = last_rate_info,
                            !.ret = "False", !.returned_at = now]
            /\ UNCHANGED <<now, last_check, last_rate_info, pc>>
       ELSE LET checked_at == now + latency
                r == check_rate_limit_result(resp, checked_at)
                compared_at == checked_at + delay
                wait_seconds == r.rate_info.reset_datetime - compared_at
                c == [NoCall EXCEPT !.op = "wait_if_needed", !.force_check = force_check,
                          !.started = now, !.prev_check = last_check,
                          !.prev_rate_info = last_rate_info, !.requests = 1,
                          !.failed = r.failed, !.rate_info = r.rate_info,
                          !.checked_at = checked_at, !.compared_at = compared_at,
                          !.wait_seconds = wait_seconds]
            IN  /\ now' = compared_at
                /\ last_check' = r._last_check
                /\ last_rate_info' = r._last_rate_info
                /\ IF needs_wait(r.rate_info, wait_seconds)
                   THEN /\ pc' = "sleeping"
                        /\ call' = [c EXCEPT !.end_time = compared_at + wait_duration(wait_seconds)]
                   ELSE /\ pc' = "idle"
                        /\ call' = [c EXCEPT !.ret = "False", !.returned_at = compared_at]
    /\ UNCHANGED min_remaining

\* One turn of the loop of _wait_with_progress: time.time() < end_time, then
\* time.sleep(1).
_wait_with_progress_sleep ==
    /\ pc = "sleeping"
    /\ now < call.end_time
    /\ now' = now + 1
    /\ call' = [call EXCEPT !.sleeps = @ + 1]
    /\ UNCHANGED <<min_remaining, last_check, last_rate_info, pc>>

\* The loop of _wait_with_progress ends and wait_if_needed returns True.
_wait_with_progress_return ==
    /\ pc = "sleeping"
    /\ now >= call.end_time
    /\ pc' = "idle"
    /\ call' = [call EXCEPT !.ret = "True", !.returned_at = now]
    /\ UNCHANGED <<now, min_remaining, last_check, last_rate_info>>

\* A second passes between two calls.
QuotaTick ==
    /\ pc = "idle"
    /\ now < MaxClock
    /\ now' = now + 1
    /\ UNCHANGED <<min_remaining, last_check, last_rate_info, pc, call>>

-----------------------------------------------------------------------------
(* with_retry.                                                             *)

\* The delays with_retry is configured with: the default and that of its
\* docstring.
Delays == {2, 5}

\* What one invocation of the decorated function does: it returns, or raises
\* an HTTPError with status 403, an HTTPError with another status, or an
\* exception that is not an HTTPError.
Outcomes == {"ok", "403", "http_other", "other"}

\* The behaviour of the decorated function, invocation by invocation.
Scripts == [1..(MaxRetries + 1) -> Outcomes]

NoException == [some |-> FALSE, cls |-> "", attempt |-> 0]
\* The exception raised by the invocation of the given attempt.
Exception(cls, attempt) == [some |-> TRUE, cls |-> cls, attempt |-> attempt]

\* A call of the wrapper.  attempt: the loop variable; invocations: calls of
\* func so far; sleeps: the arguments of time.sleep, in order; status:
\* "running", "returned" or "raised"; value: what was returned (the number of
\* the invocation that returned it, 0 for None).
NoWrapperCall ==
    [max_retries |-> 0, delay |-> 0, script |-> [i \in 1..(MaxRetries + 1) |-> "ok"],
     attempt |-> 0, invocations |-> 0, sleeps |-> <<>>,
     last_exception |-> NoException, status |-> "none", value |-> 0,
     raised |-> NoException]

RetryInit ==
    /\ wrapper_pc = "idle"
    /\ wrapper = NoWrapperCall

\* A loop that makes one attempt less.
range_one_less(max_retries) == 0..(max_retries - 2)

\* A loop that makes one attempt more.
range_inclusive(max_retries) == 0..max_retries

\* for attempt in range(max_retries)
range(max_retries) == 0..(max_retries - 1)

\* An except clause that retries an HTTPError of any status.
is_retried_any_status(cls) == TRUE

\* The failures after which the loop goes on: an HTTPError with status 403
\* and an exception that is not an HTTPError; an HTTPError with another
\* status is re-raised at once.
is_retried(cls) == cls # "http_other"

\* A backoff that does not grow.
wait_time_constant(delay, attempt) == delay

\* wait_time = delay * (2 ** attempt)
wait_time(delay, attempt) == delay * (2 ^ attempt)

\* A wrapper that keeps the first exception.
first_exception(prev, e) == IF prev.some THEN prev ELSE e

\* last_exception = e
last_exception(prev, e) == e

\* The wrapper is called: the loop starts, or is over at once when
\* range(max_retries) is empty, and then the wrapper returns None.
wrapper_call(max_retries, delay, script) ==
    /\ wrapper_pc = "idle"
    /\ LET w == [NoWrapperCall EXCEPT !.max_retries = max_retries, !.delay = delay,
                                      !.script = script, !.status = "running"]
       IN  IF range(max_retries) = {}
           THEN /\ wrapper' = [w EXCEPT !.status = "returned"]
                /\ wrapper_pc' = "done"
           ELSE /\ wrapper' = w
                /\ wrapper_pc' = "loop"

\* One turn of the loop: func is invoked and returns or raises; the except
\* clauses sleep and record the exception; after the last turn the wrapper
\* raises last_exception.
wrapper_attempt ==
    /\ wrapper_pc = "loop"
    /\ LET attempt == wrapper.attempt
           outcome == wrapper.script[wrapper.invocations + 1]
           w == [wrapper EXCEPT !.invocations = @ + 1]
           e == Exception(outcome, attempt)
           sleep == IF attempt < w.max_retries - 1
                    THEN <<IF outcome = "403" THEN wait_time(w.delay, attempt) ELSE w.delay>>
                    ELSE <<>>
           w2 == [w EXCEPT !.sleeps = @ \o sleep,
                           !.last_exception = last_exception(@, e),
                           !.attempt = attempt + 1]
       IN  IF outcome = "ok"
           THEN /\ wrapper' = [w EXCEPT !.status = "returned", !.value = w.invocations]
                /\ wrapper_pc' = "done"
           ELSE IF ~is_retried(outcome)
           THEN /\ wrapper' = [w EXCEPT !.status = "raised", !.raised = e]
                /\ wrapper_pc' = "done"
           ELSE IF attempt + 1 \in range(w.max_retries)
           THEN /\ wrapper' = w2
                /\ wrapper_pc' = "loop"
           ELSE /\ wrapper' = [w2 EXCEPT !.status = "raised", !.raised = w2.last_exception]
                /\ wrapper_pc' = "done"

\* The caller has the result or the exception; the wrapper keeps nothing from
\* one call to the next.
wrapper_exit ==
    /\ wrapper_pc = "done"
    /\ wrapper_pc' = "idle"
    /\ wrapper' = NoWrapperCall

-----------------------------------------------------------------------------
(* GitHubStatsPrivate: the methods and their quota gate.                   *)

\* The methods of GitHubStatsPrivate that calculate_all_stats and the main
\* script call.
Operations ==
    {"get_all_repos", "count_stars", "count_commits_last_year", "count_pull_requests",
     "count_issues", "count_contributed_repos_last_year", "get_language_stats",
     "get_code_changes_stats", "get_activity_heatmap", "update_profile_readme"}

\* The methods whose body calls requests.get or requests.put.
issues_requests(op) ==
    op \in {"get_all_repos", "count_commits_last_year", "count_pull_requests",
            "count_issues", "get_language_stats", "get_code_changes_stats",
            "get_activity_heatmap", "update_profile_readme"}

\* A class on which only get_all_repos carries the decorator.
is_rate_limit_aware_listing_only(op) == op = "get_all_repos"

\* The methods decorated with @rate_limit_aware.
is_rate_limit_aware(op) ==
    op \in {"get_all_repos", "count_commits_last_year", "count_pull_requests",
            "count_issues", "get_language_stats", "get_code_changes_stats",
            "get_activity_heatmap", "update_profile_readme"}

Event(e, at) == [e |-> e, at |-> at]

\* A call of a method.  pc: "idle", "calc" (calculate_all_stats has printed
\* the status message), "wrapper" (in the wrapper of rate_limit_aware, before
\* wait_if_needed), "body" (in the method itself); in_calculate: the call is
\* the get_all_repos of calculate_all_stats; status, status_failed, status_at:
\* what check_rate_limit returned to get_status_message, and when; events:
\* the calls of wait_if_needed and the requests of the method, in order.
NoRun ==
    [pc |-> "idle", op |-> "", in_calculate |-> FALSE, status |-> NoRateInfo,
     status_failed |-> FALSE, status_at |-> 0, events |-> <<>>]

StatsInit == run = NoRun

\* calculate_all_stats up to its call of get_all_repos:
\* print(self.rate_limiter.get_status_message()), which calls
\* check_rate_limit.
calculate_all_stats(resp, latency) ==
    /\ run.pc = "idle"
    /\ check_rate_limit(resp, latency)
    /\ run' = [NoRun EXCEPT !.pc = "calc", !.in_calculate = TRUE,
                            !.status = call'.rate_info, !.status_failed = call'.failed,
                            !.status_at = call'.checked_at]

\* A method is called: by calculate_all_stats, which calls get_all_repos
\* first, or on its own.
operation_call(op) ==
    /\ \/ run.pc = "idle"
       \/ run.pc = "calc" /\ op = "get_all_repos"
    /\ now < MaxClock
    /\ run' = [(IF run.pc = "calc" THEN run ELSE NoRun) EXCEPT
                    !.op = op,
                    !.pc = IF is_rate_limit_aware(op) THEN "wrapper" ELSE "body",
                    !.events = <<>>]
    /\ UNCHANGED quotaVars

\* The wrapper of rate_limit_aware: self has a rate_limiter, so
\* self.rate_limiter.wait_if_needed() is called, and then func.
rate_limit_aware(resp, latency, delay) ==
    /\ run.pc = "wrapper"
    /\ wait_if_needed(FALSE, resp, latency, delay)
    /\ run' = [run EXCEPT !.pc = "body",
                          !.events = Append(@, Event("wait_if_needed", now))]

\* The method sends a request to the API.
remote_request ==
    /\ run.pc = "body"
    /\ pc = "idle"
    /\ issues_requests(run.op)
    /\ Cardinality({i \in 1..Len(run.events) : run.events[i].e = "request"}) < MaxRequests
    /\ run' = [run EXCEPT !.events = Append(@, Event("request", now))]
    /\ UNCHANGED quotaVars

\* The method returns.
operation_return ==
    /\ run.pc = "body"
    /\ pc = "idle"
    /\ run' = [run EXCEPT !.pc = "idle"]
    /\ UNCHANGED quotaVars

\* A second passes between two calls.
StatsTick ==
    /\ run.pc \in {"idle", "calc"}
    /\ QuotaTick
    /\ UNCHANGED run

-----------------------------------------------------------------------------
(* GitHubStatsPrivate.count_issues.                                        *)

\* An item of an issue listing: its 'state', and whether it has the
\* 'pull_request' key and the 'state' key.
Item(state, pull_request, has_state) ==
    [state |-> state, pull_request |-> pull_request, has_state |-> has_state]

\* The items the API lists: issues and pull requests, open or closed.
IssueItems == {Item(st, pr, TRUE) : st \in {"open", "closed"}, pr \in BOOLEAN}

RECURSIVE SeqsUpTo(_, _)
SeqsUpTo(S, n) ==
    IF n = 0 THEN {<<>>}
    ELSE LET shorter == SeqsUpTo(S, n - 1)
         IN  shorter \cup {Append(xs, x) : xs \in shorter, x \in S}

\* What the request for the issues of one repository comes back with: a
\* listing with status 200, another status, or an exception of requests.get.
IssueResponses ==
    {[kind |-> "200", items |-> xs] : xs \in SeqsUpTo(IssueItems, MaxItems)}
        \cup {[kind |-> k, items |-> <<>>] : k \in {"non200", "exception"}}

NoStats == [total |-> 0, open |-> 0, closed |-> 0]

\* A listing filter that keeps every item.
filter_nothing(issues) == issues

\* issues = [i for i in issues if 'pull_request' not in i]
filter_pull_requests(issues) == SelectSeq(issues, LAMBDA i : ~i.pull_request)

RECURSIVE count_items(_, _)

\* for issue in issues: the counters after the loop, which a missing 'state'
\* key leaves with a KeyError after total was incremented.
count_items(issues, stats) ==
    IF issues = <<>> THEN stats
    ELSE LET issue == Head(issues)
             counted == [stats EXCEPT !.total = @ + 1]
         IN  IF ~issue.has_state THEN counted
             ELSE IF issue.state = "open"
                  THEN count_items(Tail(issues), [counted EXCEPT !.open = @ + 1])
                  ELSE count_items(Tail(issues), [counted EXCEPT !.closed = @ + 1])

\* A call of count_issues.  repos: len(repos); i: repositories done; stats:
\* the counters; listed, marked, unmarked_open, unmarked_closed: the items the
\* listings with status 200 held so far, those with the pull_request key, and
\* the open and closed ones without it.
NoTally ==
    [pc |-> "idle", repos |-> 0, i |-> 0, stats |-> NoStats,
     listed |-> 0, marked |-> 0, unmarked_open |-> 0, unmarked_closed |-> 0]

IssuesInit == tally = NoTally

count_issues_call(repos) ==
    /\ tally.pc \in {"idle", "done"}
    /\ tally' = [NoTally EXCEPT !.pc = "loop", !.repos = repos]

\* One turn of the loop over the repositories.
count_issues_repo(response) ==
    /\ tally.pc = "loop"
    /\ tally.i < tally.repos
    /\ LET items == response.items
           Unmarked(st) == Cardinality({k \in 1..Len(items) :
                                ~items[k].pull_request /\ items[k].state = st})
       IN  tally' = [tally EXCEPT
                !.i = @ + 1,
                !.stats = IF response.kind = "200"
                          THEN count_items(filter_pull_requests(items), @)
                          ELSE @,
                !.listed = @ + Len(items),
                !.marked = @ + Cardinality({k \in 1..Len(items) : items[k].pull_request}),
                !.unmarked_open = @ + Unmarked("open"),
                !.unmarked_closed = @ + Unmarked("closed")]

\* The loop is over: return stats.
count_issues_return ==
    /\ tally.pc = "loop"
    /\ tally.i = tally.repos
    /\ tally' = [tally EXCEPT !.pc = "done"]

-----------------------------------------------------------------------------
(* GitHubStatsPrivate.get_all_repos, under its with_retry decorator.       *)

\* @with_retry(max_retries=3, delay=2)
ReposMaxRetries == 3
ReposDelay == 2

\* stats.max_repos_per_page as the model configures it.
PerPage == 2

\* The user whose repositories are listed.
ReposKey == "repos_alice"

\* The listing endpoint for an account that owns the repositories 1..owned:
\* the body of page number page.
RemotePage(owned, page) ==
    LET first == (page - 1) * PerPage + 1
        count == IF owned < first THEN 0
                 ELSE IF owned - first + 1 < PerPage THEN owned - first + 1 ELSE PerPage
    IN  [i \in 1..count |-> first + i - 1]

\* The list of repositories as the Python value handed to the cache.
ReposValue(repos) == PyList([i \in 1..Len(repos) |-> PyInt(repos[i])])

\* bool(value), as 'if cached:' and 'if not data:' evaluate it.
truthy(v) ==
    CASE v.tag = "none" -> FALSE
      [] v.tag \in {"list", "tuple", "dict"} -> v.items # <<>>
      [] v.tag \in {"int", "bool"} -> v.n # 0
      [] v.tag = "str" -> v.s # ""
      [] OTHER -> TRUE

\* A pagination that skips a page.
next_page_skipping(page) == page + 2

\* page += 1
next_page(page) == page + 1

\* The decorators with the retry wrapper applied last, around the gate.
decorators_retry_outermost(op) == <<"with_retry", "rate_limit_aware">>

\* The decorators of a method, the outermost first: '@rate_limit_aware'
\* above '@with_retry(...)' wraps what with_retry returns.
decorators(op) ==
    IF op = "get_all_repos" THEN <<"rate_limit_aware", "with_retry">>
    ELSE <<"rate_limit_aware">>

\* A call of get_all_repos.  owned: the repositories of the account;
\* attempt, invocations, sleeps, last_exception, status, raised: as in the
\* wrapper of with_retry; cold: the current invocation found no usable cache
\* entry; repos, page: the locals of the loop; requested: the page numbers
\* requested by the current invocation, in order; value: what was returned;
\* gates: the calls of rate_limiter.wait_if_needed made for this call.
NoFetch ==
    [pc |-> "idle", owned |-> 0, cache_enabled |-> TRUE, max_age_hours |-> 0,
     attempt |-> 0, invocations |-> 0, sleeps |-> <<>>, last_exception |-> NoException,
     status |-> "none", raised |-> NoException, cold |-> FALSE,
     repos |-> <<>>, page |-> 0, requested |-> <<>>, value |-> PyNone,
     gates |-> 0]

ReposInit == fetch = NoFetch

\* get_all_repos is called: the outermost wrapper runs, and the wrapper of
\* with_retry starts its loop.
get_all_repos_call(owned, cache_enabled, max_age_hours) ==
    /\ fetch.pc = "idle"
    /\ fetch' = [NoFetch EXCEPT !.pc = "invoke", !.owned = owned,
                                !.cache_enabled = cache_enabled,
                                !.max_age_hours = max_age_hours, !.status = "running",
                                !.gates = IF decorators("get_all_repos")[1] = "rate_limit_aware"
                                          THEN 1 ELSE 0]
    /\ UNCHANGED cacheVars

\* The wrapper invokes the method: the cache is consulted, and a usable entry
\* is returned; otherwise the pagination starts at page 1 with repos = [].
get_all_repos_invoke ==
    /\ fetch.pc = "invoke"
    /\ IF fetch.cache_enabled
       THEN get(ReposKey, fetch.max_age_hours)
       ELSE UNCHANGED cacheVars
    /\ LET cached == IF fetch.cache_enabled THEN last'.ret ELSE PyNone
           f == [fetch EXCEPT !.invocations = @ + 1,
                              !.gates = IF decorators("get_all_repos")[1] = "with_retry"
                                        THEN @ + 1 ELSE @]
       IN  IF truthy(cached)
           THEN fetch' = [f EXCEPT !.pc = "done", !.status = "returned", !.value = cached,
                                  !.cold = FALSE, !.requested = <<>>]
           ELSE fetch' = [f EXCEPT !.pc = "paging", !.cold = TRUE, !.repos = <<>>,
                                  !.page = 1, !.requested = <<>>]

\* One turn of 'while True': the page is requested; the request fails and
\* the except clauses of the wrapper take over, or the page is empty and the
\* method stores and returns repos, or the page is added to repos.
get_all_repos_page(outcome) ==
    /\ fetch.pc = "paging"
    /\ LET f == [fetch EXCEPT !.requested = Append(@, fetch.page)]
           data == RemotePage(fetch.owned, fetch.page)
           e == Exception(outcome, fetch.attempt)
           sleep == IF fetch.attempt < ReposMaxRetries - 1
                    THEN <<IF outcome = "403" THEN wait_time(ReposDelay, fetch.attempt)
                           ELSE ReposDelay>>
                    ELSE <<>>
           f2 == [f EXCEPT !.sleeps = @ \o sleep,
                           !.last_exception = last_exception(@, e),
                           !.attempt = @ + 1]
       IN  IF outcome # "ok"
           THEN /\ UNCHANGED cacheVars
                /\ IF ~is_retried(outcome)
                   THEN fetch' = [f EXCEPT !.pc = "done", !.status = "raised", !.raised = e]
                   ELSE IF fetch.attempt + 1 \in range(ReposMaxRetries)
                   THEN fetch' = [f2 EXCEPT !.pc = "invoke"]
                   ELSE fetch' = [f2 EXCEPT !.pc = "done", !.status = "raised",
                                           !.raised = f2.last_exception]
           ELSE IF data = <<>>
           THEN /\ IF fetch.cache_enabled
                   THEN set(ReposKey, ReposValue(fetch.repos))
                   ELSE UNCHANGED cacheVars
                /\ fetch' = [f EXCEPT !.pc = "done", !.status = "returned",
                                      !.value = ReposValue(fetch.repos)]
           ELSE /\ UNCHANGED cacheVars
                /\ fetch' = [f EXCEPT !.repos = @ \o data, !.page = next_page(@)]

\* The caller has the list or the exception; the locals are gone.
get_all_repos_exit ==
    /\ fetch.pc = "done"
    /\ fetch' = NoFetch
    /\ UNCHANGED cacheVars

-----------------------------------------------------------------------------
(* GitHubStatsPrivate.count_pull_requests.                                 *)

\* 'per_page': 100 of the request, as the model scales it.
PullsPerPage == 2

\* An item of a pull-request listing: its 'state', whether 'merged_at' is
\* set, and whether it has the 'state' key.
Pull(state, merged, has_state) ==
    [state |-> state, merged |-> merged, has_state |-> has_state]

\* The pull requests a repository holds: open, closed without a merge, closed
\* by a merge; and an item without 'state'.
PullItems ==
    {Pull("open", FALSE, TRUE), Pull("closed", FALSE, TRUE), Pull("closed", TRUE, TRUE),
     Pull("", FALSE, FALSE)}

\* The remote's answer to a listing request that names per_page and no page:
\* the first page of the items.
first_page(items, per_page) ==
    SubSeq(items, 1, IF Len(items) < per_page THEN Len(items) ELSE per_page)

\* response.json() of GET /repos/{repo}/pulls?state=all&creator=..&per_page=100
pulls_listing(items, per_page) == first_page(items, per_page)

\* What the request for the pull requests of one repository meets: a
\* repository with the pull requests 'created' answering with status 200,
\* another status, or an exception of requests.get.
PullResponses ==
    {[kind |-> "200", created |-> xs] : xs \in SeqsUpTo(PullItems, MaxPulls)}
        \cup {[kind |-> k, created |-> <<>>] : k \in {"non200", "exception"}}

NoPullStats == [total |-> 0, open |-> 0, closed |-> 0, merged |-> 0]

RECURSIVE count_prs(_, _)

\* for pr in prs: the counters after the loop, which an item without 'state'
\* leaves with a KeyError after total was incremented.
count_prs(prs, stats) ==
    IF prs = <<>> THEN stats
    ELSE LET pr == Head(prs)
             counted == [stats EXCEPT !.total = @ + 1]
             by_state == IF pr.state = "open"
                         THEN [counted EXCEPT !.open = @ + 1]
                         ELSE [counted EXCEPT !.closed = @ + 1]
         IN  IF ~pr.has_state THEN counted
             ELSE count_prs(Tail(prs), IF pr.merged
                                       THEN [by_state EXCEPT !.merged = @ + 1]
                                       ELSE by_state)

\* A call of count_pull_requests.  repos: len(repos); i: repositories done;
\* stats: the counters; created: the pull requests of the account in the
\* repositories that answered with status 200 so far; failed_partway: the
\* loop over the items of some repository ended with an exception.
NoPulls ==
    [pc |-> "idle", repos |-> 0, i |-> 0, stats |-> NoPullStats,
     created |-> 0, failed_partway |-> FALSE]

PullsInit == pulls = NoPulls

count_pull_requests_call(repos) ==
    /\ pulls.pc \in {"idle", "done"}
    /\ pulls' = [NoPulls EXCEPT !.pc = "loop", !.repos = repos]

\* One turn of the loop over the repositories.
count_pull_requests_repo(response) ==
    /\ pulls.pc = "loop"
    /\ pulls.i < pulls.repos
    /\ LET prs == pulls_listing(response.created, PullsPerPage)
       IN  pulls' = [pulls EXCEPT
                !.i = @ + 1,
                !.stats = IF response.kind = "200" THEN count_prs(prs, @) ELSE @,
                !.created = @ + Len(response.created),
                !.failed_partway = @ \/ (response.kind = "200"
                                          /\ \E k \in 1..Len(prs) : ~prs[k].has_state)]

\* The loop is over: return stats.
count_pull_requests_return ==
    /\ pulls.pc = "loop"
    /\ pulls.i = pulls.repos
    /\ pulls' = [pulls EXCEPT !.pc = "done"]

-----------------------------------------------------------------------------
(* GitHubStatsPrivate.count_commits_last_year.                             *)

\* What a request for a page of the commits of a repository meets: status
\* 200 with a page of n commits, another status, or an exception of
\* requests.get or response.json().
CommitResponses ==
    {[kind |-> "200", n |-> n] : n \in 0..MaxPageLen}
        \cup {[kind |-> k, n |-> 0] : k \in {"non200", "exception"}}

\* A loop head that lets one page more through.
while_one_more_page(page, max_pages) == page <= max_pages + 1

\* while page <= max_pages
while_page(page, max_pages) == page <= max_pages

\* if response.status_code != 200: break ... if not commits: break
breaks(response) == response.kind # "200" \/ response.n = 0

\* A call of count_commits_last_year.  repos: len(repos); i: repositories
\* done; max_pages, page, total_commits: the locals of the method; log: the
\* responses to the requests for the repository in hand or, between two
\* repositories, the one just done; fresh: the next request is the first for
\* its repository; received: the commits in the non-empty pages received
\* with status 200.
NoCommits ==
    [pc |-> "idle", repos |-> 0, i |-> 0, max_pages |-> 0, page |-> 0,
     total_commits |-> 0, log |-> <<>>, fresh |-> TRUE, received |-> 0]

CommitsInit == commits = NoCommits

count_commits_last_year_call(repos, max_pages) ==
    /\ commits.pc \in {"idle", "done"}
    /\ commits' = [NoCommits EXCEPT !.pc = "loop", !.repos = repos,
                                    !.max_pages = max_pages, !.page = 1]

\* One turn of 'while page <= max_pages' for the repository in hand: the
\* page is requested; an exception ends the repository in the except clause,
\* a break ends it, and a non-empty page is counted.
count_commits_last_year_page(response) ==
    /\ commits.pc = "loop"
    /\ commits.i < commits.repos
    /\ while_page(commits.page, commits.max_pages)
    /\ LET c == [commits EXCEPT
                    !.log = IF commits.fresh THEN <<response>> ELSE Append(@, response),
                    !.fresh = FALSE,
                    !.received = @ + response.n]
       IN  IF response.kind = "exception" \/ breaks(response)
           THEN commits' = [c EXCEPT !.i = @ + 1, !.page = 1, !.fresh = TRUE]
           ELSE commits' = [c EXCEPT !.total_commits = @ + response.n, !.page = @ + 1]

\* The while loop ends on its condition: on to the next repository.
count_commits_last_year_next ==
    /\ commits.pc = "loop"
    /\ commits.i < commits.repos
    /\ ~while_page(commits.page, commits.max_pages)
    /\ commits' = [commits EXCEPT !.i = @ + 1, !.page = 1, !.fresh = TRUE,
                                  !.log = IF commits.fresh THEN <<>> ELSE @]

\* The loop over the repositories is over: return total_commits.
count_commits_last_year_return ==
    /\ commits.pc = "loop"
    /\ commits.i = commits.repos
    /\ commits' = [commits EXCEPT !.pc = "done"]

-----------------------------------------------------------------------------
(* GitHubStatsPrivate.calculate_all_stats: the per-repository operations   *)
(* and what becomes of a failure inside them.                              *)

\* The operations calculate_all_stats calls with repos, each a loop over the
\* repositories, in the order of the calls.
Pipeline ==
    <<"count_commits_last_year", "count_pull_requests", "count_issues",
      "get_language_stats", "get_code_changes_stats", "get_activity_heatmap">>

\* The steps of the body of the loop for one repository.
Steps == {"request", "status", "json", "items"}

\* What the processing of a repository meets: nothing, an exception of
\* requests.get, a status other than 200, or an item of the answer that
\* lacks what the operation reads from it.
Failures == {"none", "request_exception", "non200", "malformed_item"}

\* The answer of one repository: units items (commits, pull requests,
\* issues, languages, weeks), of which number bad is the malformed one.  For
\* get_code_changes_stats it is the answer to the second request when the
\* first one had status 202.
RepoResponses ==
    {[failure |-> "none", units |-> u, bad |-> 0] : u \in 0..MaxUnits}
        \cup {[failure |-> f, units |-> 0, bad |-> 0] : f \in {"request_exception", "non200"}}
        \cup UNION {{[failure |-> "malformed_item", units |-> u, bad |-> b] : b \in 1..u} :
                        u \in 1..MaxUnits}

\* A try block that ends after the request.
try_block_request_only(op) == {"request"}

\* The steps inside 'try:' in the loop of the operation: all of them, from
\* the request to the loop over the items.
try_block(op) == Steps

\* except Exception as e: ... continue
except_catches(cls) == cls \in {"RequestException", "ValueError", "KeyError", "TypeError"}

\* Whether the operation reads inside the items: count_commits_last_year
\* adds len(commits) and does not.
reads_items(op) == op # "count_commits_last_year"

\* Whether the operation counts an item before it reads it: stats['total']
\* += 1 comes before pr['state'] and issue['state'].
counts_before_reading(op) == op \in {"count_pull_requests", "count_issues"}

\* A run of calculate_all_stats from the moment get_all_repos has returned.
\* step: the operation of Pipeline in hand; repos: len(repos); i: the
\* repositories the operation has done; result: the units the operation has
\* counted; clean: the units of the repositories it met no failure in;
\* seen: the failures met during the run; raised: the exception that left
\* calculate_all_stats.
NoAggregate ==
    [pc |-> "idle", step |-> 0, repos |-> 0, i |-> 0, result |-> 0, clean |-> 0,
     seen |-> {}, raised |-> ""]

AggregateInit == agg = NoAggregate

\* repos = self.get_all_repos() has returned; the first operation is called.
calculate_all_stats_repos(repos) ==
    /\ agg.pc \in {"idle", "done", "raised"}
    /\ agg' = [NoAggregate EXCEPT !.pc = "loop", !.step = 1, !.repos = repos]

\* One turn of the loop of the operation in hand over the repositories.
operation_repo(response) ==
    /\ agg.pc = "loop"
    /\ agg.i < agg.repos
    /\ LET op == Pipeline[agg.step]
           fails_at ==
               CASE response.failure = "request_exception" -> "request"
                 [] response.failure = "malformed_item" /\ reads_items(op) -> "items"
                 [] OTHER -> ""
           cls == IF fails_at = "request" THEN "RequestException" ELSE "KeyError"
           counted ==
               CASE response.failure = "none" -> response.units
                 [] response.failure = "malformed_item" ->
                       IF ~reads_items(op) THEN response.units
                       ELSE IF counts_before_reading(op) THEN response.bad
                       ELSE response.bad - 1
                 [] OTHER -> 0
           seen == IF response.failure = "none" THEN agg.seen
                   ELSE agg.seen \cup {response.failure}
       IN  IF fails_at # "" /\ ~(fails_at \in try_block(op) /\ except_catches(cls))
           THEN agg' = [agg EXCEPT !.pc = "raised", !.raised = cls, !.seen = seen]
           ELSE agg' = [agg EXCEPT
                    !.i = @ + 1,
                    !.result = @ + counted,
                    !.clean = @ + (IF response.failure = "none" THEN response.units ELSE 0),
                    !.seen = seen]

\* The loop of the operation is over and it returns its result.
operation_result ==
    /\ agg.pc = "loop"
    /\ agg.i = agg.repos
    /\ agg' = [agg EXCEPT !.pc = "returned"]

\* calculate_all_stats stores the result and calls the next operation, or
\* returns stats after the last one.
calculate_all_stats_next ==
    /\ agg.pc = "returned"
    /\ IF agg.step < Len(Pipeline)
       THEN agg' = [agg EXCEPT !.pc = "loop", !.step = @ + 1, !.i = 0,
                               !.result = 0, !.clean = 0]
       ELSE agg' = [agg EXCEPT !.pc = "done"]

-----------------------------------------------------------------------------
(* GitHubStatsPrivate.update_profile_readme.                               *)

\* The rendered documents handed to update_profile_readme.
Documents == {"# stats of monday", "# stats of tuesday", "# stats of friday"}

\* The revision markers the content endpoint hands out.
Shas == {"3f2a", "9c41"}

\* What the read of the content endpoint meets: status 200 with the marker
\* of the file, another status, or an exception of requests.get.
ReadAnswers ==
    {[kind |-> "200", sha |-> s] : s \in Shas}
        \cup {[kind |-> k, sha |-> ""] : k \in {"403", "404", "500", "exception"}}

\* What the write meets: a status, or an exception of requests.put.
WriteAnswers == {"200", "201", "403", "409", "422", "500", "exception"}

\* response.raise_for_status() raises for the statuses from 400 on.
raise_for_status(kind) == kind \in {"403", "404", "409", "422", "500"}

\* A class whose methods all carry @with_retry.
is_with_retry_every_method(op) == TRUE

\* The methods decorated with @with_retry: get_all_repos alone.
is_with_retry(op) == op = "get_all_repos"

\* A request of update_profile_readme: its method, the sha its body carries
\* ("" for none), and the status or exception it met.
Request(method, sha, outcome) == [method |-> method, sha |-> sha, outcome |-> outcome]

\* A call of update_profile_readme.  content: the document; sha: the local
\* of that name, "" for None; attempt: the invocations that failed; events:
\* the requests to the content endpoint, in order; status: "returned" or
\* "raised".
NoPublish ==
    [pc |-> "idle", content |-> "", sha |-> "", attempt |-> 0, events |-> <<>>,
     status |-> "none"]

PublishInit == publish = NoPublish

update_profile_readme_call(content) ==
    /\ publish.pc = "idle"
    /\ publish' = [NoPublish EXCEPT !.pc = "read", !.content = content]

\* sha = None; try: response = requests.get(url); if status 200: sha =
\* response.json()['sha']; except Exception: warning.
update_profile_readme_read(answer) ==
    /\ publish.pc = "read"
    /\ publish' = [publish EXCEPT
            !.pc = "write",
            !.sha = IF answer.kind = "200" THEN answer.sha ELSE "",
            !.events = Append(@, Request("GET", "", answer.kind))]

\* data = {message, content}; if sha: data['sha'] = sha; response =
\* requests.put(url, json=data); response.raise_for_status(); return.
update_profile_readme_write(kind) ==
    /\ publish.pc = "write"
    /\ LET sent == [publish EXCEPT
                       !.events = Append(@, Request("PUT", publish.sha, kind))]
       IN  IF kind = "exception" \/ raise_for_status(kind)
           THEN IF is_with_retry("update_profile_readme")
                   /\ publish.attempt + 1 \in range(ReposMaxRetries)
                THEN publish' = [sent EXCEPT !.pc = "read", !.sha = "", !.attempt = @ + 1]
                ELSE publish' = [sent EXCEPT !.pc = "done", !.status = "raised"]
           ELSE publish' = [sent EXCEPT !.pc = "done", !.status = "returned"]

\* The caller has the answer or the exception.
update_profile_readme_exit ==
    /\ publish.pc = "done"
    /\ publish' = NoPublish

-----------------------------------------------------------------------------
(* scripts/update_stats.py: main.                                          *)

\* How main gets on before the README is rendered: it goes through, or it
\* returns early: the configuration does not load (1), --show-config (0),
\* the credentials are invalid (1), the statistics manager cannot be set up
\* (1), calculate_all_stats raises (1), generate_profile_readme raises (1).
EarlyReturns ==
    {"none", "config", "show_config", "credentials", "init", "stats", "readme"}

\* The status main returns with on an early return.
early_status(early) == IF early = "show_config" THEN 0 ELSE 1

\* save_readme_to_file goes on to its end whether or not the file could be
\* written: 'except Exception as e: print(...)'.
save_failure_swallowed(writable) == TRUE

\* Whether main goes on after save_readme_to_file(readme_content,
\* output_file).
save_readme_to_file_returns(writable) == save_failure_swallowed(writable)

\* A run of main.  dry_run: args.dry_run; writable: whether the path
\* args.output can be written; readme_content: the rendered README;
\* output_file: the content of the file at the output path, "" for no file,
\* which outlives the run; exit_status: what main returned.
NoMain ==
    [pc |-> "idle", dry_run |-> FALSE, writable |-> TRUE, early |-> "none",
     readme_content |-> "", output_file |-> "", exit_status |-> 0]

MainInit == main = NoMain

\* main from the parsing of the arguments to the rendering of the README.
main_render(dry_run, writable, early, content) ==
    /\ main.pc = "idle"
    /\ main' = [main EXCEPT
            !.dry_run = dry_run, !.writable = writable, !.early = early,
            !.readme_content = IF early = "none" THEN content ELSE "",
            !.pc = IF early = "none" THEN "rendered" ELSE "exit",
            !.exit_status = IF early = "none" THEN 0 ELSE early_status(early)]
    /\ UNCHANGED publish

\* save_readme_to_file(readme_content, output_file)
main_save ==
    /\ main.pc = "rendered"
    /\ main' = [main EXCEPT
            !.output_file = IF main.writable THEN main.readme_content ELSE @,
            !.pc = IF save_readme_to_file_returns(main.writable) THEN "saved" ELSE "exit",
            !.exit_status = IF save_readme_to_file_returns(main.writable) THEN 0 ELSE 1]
    /\ UNCHANGED publish

\* if args.dry_run: print the preview; return 0
main_dry_run ==
    /\ main.pc = "saved"
    /\ main.dry_run
    /\ main' = [main EXCEPT !.pc = "exit", !.exit_status = 0]
    /\ UNCHANGED publish

\* result = stats_manager.update_profile_readme(readme_content)
main_publish ==
    /\ main.pc = "saved"
    /\ ~main.dry_run
    /\ update_profile_readme_call(main.readme_content)
    /\ main' = [main EXCEPT !.pc = "publishing"]

\* update_profile_readme returned: return 0; or raised: except Exception,
\* return 1.
main_publish_result ==
    /\ main.pc = "publishing"
    /\ publish.pc = "done"
    /\ main' = [main EXCEPT !.pc = "exit",
                            !.exit_status = IF publish.status = "raised" THEN 1 ELSE 0]
    /\ UNCHANGED publish

\* sys.exit(main()): the process ends; the output file stays.
main_exit ==
    /\ main.pc = "exit"
    /\ main' = [NoMain EXCEPT !.output_file = main.output_file]
    /\ publish' = NoPublish

-----------------------------------------------------------------------------
(* The specifications.                                                     *)

CacheNext ==
    \/ \E key \in Keys, data \in Payloads : set(key, data) /\ UNCHANGED exceptCache
    \/ \E key \in Keys, max_age_hours \in MaxAges : get(key, max_age_hours) /\ UNCHANGED exceptCache
    \/ \E key \in Keys : delete(key) /\ UNCHANGED exceptCache
    \/ clear /\ UNCHANGED exceptCache
    \/ Tick /\ UNCHANGED exceptCache

CacheSpecInit == CacheInit /\ QuotaInit /\ RetryInit /\ StatsInit /\ IssuesInit /\ ReposInit /\ PullsInit /\ CommitsInit /\ AggregateInit /\ PublishInit /\ MainInit /\ min_remaining = 100

CacheSpec == CacheSpecInit /\ [][CacheNext]_vars

QuotaNext ==
    \/ \E resp \in Responses(now), latency \in 0..MaxLatency :
          check_rate_limit(resp, latency) /\ UNCHANGED exceptQuota
    \/ \E force_check \in BOOLEAN, resp \in Responses(now),
          latency \in 0..MaxLatency, delay \in 0..MaxLatency :
          wait_if_needed(force_check, resp, latency, delay) /\ UNCHANGED exceptQuota
    \/ _wait_with_progress_sleep /\ UNCHANGED exceptQuota
    \/ _wait_with_progress_return /\ UNCHANGED exceptQuota
    \/ QuotaTick /\ UNCHANGED exceptQuota

QuotaSpecInit == CacheInit /\ QuotaInit /\ RetryInit /\ StatsInit /\ IssuesInit /\ ReposInit /\ PullsInit /\ CommitsInit /\ AggregateInit /\ PublishInit /\ MainInit

QuotaSpec == QuotaSpecInit /\ [][QuotaNext]_vars

\* The key of the runs that may be interrupted (the user of the run).
CrashKeys == {"repos_alice"}

\* The cache across process runs: its methods on the key of the run, and a
\* termination inside set.
CrashNext ==
    \/ \E key \in CrashKeys, data \in Payloads : set(key, data) /\ UNCHANGED exceptCache
    \/ \E key \in CrashKeys, data \in Payloads, n \in 0..MaxChunks :
          set_interrupted(key, data, n) /\ UNCHANGED exceptCache
    \/ \E key \in CrashKeys, max_age_hours \in MaxAges :
          get(key, max_age_hours) /\ UNCHANGED exceptCache
    \/ \E key \in CrashKeys : delete(key) /\ UNCHANGED exceptCache
    \/ Tick /\ UNCHANGED exceptCache

CrashSpecInit == CacheInit /\ QuotaInit /\ RetryInit /\ StatsInit /\ IssuesInit /\ ReposInit /\ PullsInit /\ CommitsInit /\ AggregateInit /\ PublishInit /\ MainInit /\ min_remaining = 100

CrashSpec == CrashSpecInit /\ [][CrashNext]_vars

RetryNext ==
    \/ \E max_retries \in 0..MaxRetries, delay \in Delays, script \in Scripts :
          wrapper_call(max_retries, delay, script) /\ UNCHANGED exceptRetry
    \/ wrapper_attempt /\ UNCHANGED exceptRetry
    \/ wrapper_exit /\ UNCHANGED exceptRetry

RetrySpecInit == CacheInit /\ QuotaInit /\ RetryInit /\ StatsInit /\ IssuesInit /\ ReposInit /\ PullsInit /\ CommitsInit /\ AggregateInit /\ PublishInit /\ MainInit /\ min_remaining = 100

RetrySpec == RetrySpecInit /\ [][RetryNext]_vars

StatsNext ==
    \/ \E resp \in Responses(now), latency \in 0..MaxLatency :
          calculate_all_stats(resp, latency) /\ UNCHANGED exceptQuotaAndStats
    \/ \E op \in Operations : operation_call(op) /\ UNCHANGED exceptQuotaAndStats
    \/ \E resp \in Responses(now), latency \in 0..MaxLatency, delay \in 0..MaxLatency :
          rate_limit_aware(resp, latency, delay) /\ UNCHANGED exceptQuotaAndStats
    \/ _wait_with_progress_sleep /\ UNCHANGED exceptQuota
    \/ _wait_with_progress_return /\ UNCHANGED exceptQuota
    \/ remote_request /\ UNCHANGED exceptQuotaAndStats
    \/ operation_return /\ UNCHANGED exceptQuotaAndStats
    \/ StatsTick /\ UNCHANGED exceptQuotaAndStats

StatsSpecInit == CacheInit /\ QuotaInit /\ RetryInit /\ StatsInit /\ IssuesInit /\ ReposInit /\ PullsInit /\ CommitsInit /\ AggregateInit /\ PublishInit /\ MainInit /\ min_remaining = 100

StatsSpec == StatsSpecInit /\ [][StatsNext]_vars

IssuesNext ==
    \/ \E repos \in 0..MaxRepos : count_issues_call(repos) /\ UNCHANGED exceptIssues
    \/ \E response \in IssueResponses : count_issues_repo(response) /\ UNCHANGED exceptIssues
    \/ count_issues_return /\ UNCHANGED exceptIssues

IssuesSpecInit ==
    CacheInit /\ QuotaInit /\ RetryInit /\ StatsInit /\ IssuesInit /\ ReposInit /\ PullsInit /\ CommitsInit /\ AggregateInit /\ PublishInit /\ MainInit /\ min_remaining = 100

IssuesSpec == IssuesSpecInit /\ [][IssuesNext]_vars

ReposNext ==
    \/ \E owned \in 0..MaxOwned, cache_enabled \in BOOLEAN, max_age_hours \in {MaxAgeHours} :
          get_all_repos_call(owned, cache_enabled, max_age_hours)
              /\ UNCHANGED exceptCacheAndFetch
    \/ get_all_repos_invoke /\ UNCHANGED exceptCacheAndFetch
    \/ \E outcome \in Outcomes : get_all_repos_page(outcome) /\ UNCHANGED exceptCacheAndFetch
    \/ get_all_repos_exit /\ UNCHANGED exceptCacheAndFetch

ReposSpecInit ==
    CacheInit /\ QuotaInit /\ RetryInit /\ StatsInit /\ IssuesInit /\ ReposInit /\ PullsInit /\ CommitsInit /\ AggregateInit /\ PublishInit /\ MainInit
        /\ min_remaining = 100

ReposSpec == ReposSpecInit /\ [][ReposNext]_vars

\* The process is single-threaded and synchronous: a call that has started
\* goes on until it returns or raises.
ReposFairSpec ==
    /\ ReposSpec
    /\ WF_vars(get_all_repos_invoke /\ UNCHANGED exceptCacheAndFetch)
    /\ WF_vars(\E outcome \in Outcomes :
                  get_all_repos_page(outcome) /\ UNCHANGED exceptCacheAndFetch)

PullsNext ==
    \/ \E repos \in 0..MaxRepos : count_pull_requests_call(repos) /\ UNCHANGED exceptPulls
    \/ \E response \in PullResponses :
          count_pull_requests_repo(response) /\ UNCHANGED exceptPulls
    \/ count_pull_requests_return /\ UNCHANGED exceptPulls

PullsSpecInit ==
    CacheInit /\ QuotaInit /\ RetryInit /\ StatsInit /\ IssuesInit /\ ReposInit /\ PullsInit /\ CommitsInit /\ AggregateInit /\ PublishInit /\ MainInit /\ min_remaining = 100

PullsSpec == PullsSpecInit /\ [][PullsNext]_vars

CommitsNext ==
    \/ \E repos \in 0..MaxRepos, max_pages \in 0..MaxPages :
          count_commits_last_year_call(repos, max_pages) /\ UNCHANGED exceptCommits
    \/ \E response \in CommitResponses :
          count_commits_last_year_page(response) /\ UNCHANGED exceptCommits
    \/ count_commits_last_year_next /\ UNCHANGED exceptCommits
    \/ count_commits_last_year_return /\ UNCHANGED exceptCommits

CommitsSpecInit ==
    CacheInit /\ QuotaInit /\ RetryInit /\ StatsInit /\ IssuesInit /\ ReposInit /\ PullsInit /\ CommitsInit /\ AggregateInit /\ PublishInit /\ MainInit /\ min_remaining = 100

CommitsSpec == CommitsSpecInit /\ [][CommitsNext]_vars

AggregateNext ==
    \/ \E repos \in 0..MaxRepos : calculate_all_stats_repos(repos) /\ UNCHANGED exceptAggregate
    \/ \E response \in RepoResponses : operation_repo(response) /\ UNCHANGED exceptAggregate
    \/ operation_result /\ UNCHANGED exceptAggregate
    \/ calculate_all_stats_next /\ UNCHANGED exceptAggregate

AggregateSpecInit ==
    CacheInit /\ QuotaInit /\ RetryInit /\ StatsInit /\ IssuesInit /\ ReposInit /\ PullsInit /\ CommitsInit /\ AggregateInit /\ PublishInit /\ MainInit /\ min_remaining = 100

AggregateSpec == AggregateSpecInit /\ [][AggregateNext]_vars

PublishNext ==
    \/ \E content \in Documents : update_profile_readme_call(content) /\ UNCHANGED exceptPublish
    \/ \E answer \in ReadAnswers : update_profile_readme_read(answer) /\ UNCHANGED exceptPublish
    \/ \E kind \in WriteAnswers : update_profile_readme_write(kind) /\ UNCHANGED exceptPublish
    \/ update_profile_readme_exit /\ UNCHANGED exceptPublish

PublishSpecInit ==
    CacheInit /\ QuotaInit /\ RetryInit /\ StatsInit /\ IssuesInit /\ ReposInit /\ PullsInit /\ CommitsInit /\ AggregateInit /\ PublishInit /\ MainInit /\ min_remaining = 100

PublishSpec == PublishSpecInit /\ [][PublishNext]_vars

MainNext ==
    \/ \E dry_run \in BOOLEAN, writable \in BOOLEAN, early \in EarlyReturns,
          content \in Documents :
          main_render(dry_run, writable, early, content) /\ UNCHANGED exceptPublishAndMain
    \/ main_save /\ UNCHANGED exceptPublishAndMain
    \/ main_dry_run /\ UNCHANGED exceptPublishAndMain
    \/ main_publish /\ UNCHANGED exceptPublishAndMain
    \/ \E answer \in ReadAnswers :
          update_profile_readme_read(answer) /\ UNCHANGED exceptPublish
    \/ \E kind \in WriteAnswers :
          update_profile_readme_write(kind) /\ UNCHANGED exceptPublish
    \/ main_publish_result /\ UNCHANGED exceptPublishAndMain
    \/ main_exit /\ UNCHANGED exceptPublishAndMain

MainSpecInit ==
    CacheInit /\ QuotaInit /\ RetryInit /\ StatsInit /\ IssuesInit /\ ReposInit /\ PullsInit /\ CommitsInit /\ AggregateInit /\ PublishInit /\ MainInit /\ min_remaining = 100

MainSpec == MainSpecInit /\ [][MainNext]_vars

-----------------------------------------------------------------------------
(* Properties of the cache store.                                          *)

RECURSIVE AsJson(_), Serializable(_)

\* What a value is once written as JSON and read back: a tuple is a list, a
\* dict key is a string; lists, strings and integers are themselves.
AsJson(v) ==
    CASE v.tag \in {"list", "tuple"} ->
            PyList([i \in 1..Len(v.items) |-> AsJson(v.items[i])])
      [] v.tag = "dict" ->
            PyDict([i \in 1..Len(v.items) |->
                        IF i % 2 = 1 THEN PyStr(KeyText(v.items[i]))
                        ELSE AsJson(v.items[i])])
      [] OTHER -> v

\* json has an encoder for the value and the value holds no reference cycle.
Serializable(v) ==
    /\ v.tag \notin {"set", "cycle"}
    /\ \A i \in 1..Len(v.items) : Serializable(v.items[i])

Absent == PyNone

\* The key, file and age (time since the last set on the key) of the last call.
LastHist == hist[last.key]
LastFile == cache_dir[_get_cache_key(last.key)]
LastAge == last.at - hist[last.key].at

\* C1, as claimed: a get after a successful set on the same key, with no set,
\* delete or clear on that key in between, returns a value equal to the
\* payload, for every max age >= 0.
C1_RoundTripAnyAge ==
    (last.op = "get" /\ LastHist.has /\ LastHist.ok) => last.ret = LastHist.data

\* C1, amended: a get after a successful set on the same key, with no set,
\* delete or clear in between, that finds the entry present at an age of at
\* most max_age_hours returns the payload as JSON round-trips it, which is
\* the payload itself when it is built of lists, string-keyed dicts, strings
\* and integers.
C1_RoundTrip ==
    (last.op = "get" /\ LastHist.has /\ LastHist.ok /\ last.existed
        /\ LastAge <= last.max_age_hours)
    => /\ last.ret = AsJson(LastHist.data)
       /\ (AsJson(LastHist.data) = LastHist.data => last.ret = LastHist.data)
       /\ last.exc = "none"

\* A get with max_age_hours = 0 at the very time of the set returned the list
\* that was set; another returned it after time had passed.
C1_Witness ==
    /\ last.op = "get" /\ LastHist.has /\ LastHist.ok /\ last.existed
    /\ last.max_age_hours = 0 /\ LastAge = 0
    /\ last.ret = LastHist.data /\ last.ret.tag = "list"

\* C2, as claimed: a get on an entry older than max_age_hours returns absent
\* and removes it, so that total_files is one less than before; an entry that
\* is not older is returned and not removed.
C2_ExpiryAnyEntry ==
    (last.op = "get" /\ last.existed)
    => IF LastAge > last.max_age_hours
       THEN /\ last.ret = Absent
            /\ ~LastFile.exists
            /\ get_cache_info.total_files = last.n_before - 1
       ELSE /\ last.ret # Absent
            /\ LastFile.exists
            /\ get_cache_info.total_files = last.n_before

\* C2, amended: a get on an entry older than max_age_hours returns absent and
\* removes it, so that total_files is one less than before; an entry that is
\* not older and was written by a set that succeeded is returned and not
\* removed.
C2_Expiry ==
    (last.op = "get" /\ last.existed)
    => IF LastAge > last.max_age_hours
       THEN /\ last.ret = Absent
            /\ ~LastFile.exists
            /\ get_cache_info.total_files = last.n_before - 1
       ELSE LastHist.ok
            => /\ last.ret = AsJson(LastHist.data)
               /\ LastFile.exists
               /\ get_cache_info.total_files = last.n_before

\* A get with max_age_hours = 1 found an entry two hours old among two
\* entries and left one.
C2_Witness ==
    /\ last.op = "get" /\ last.existed
    /\ last.max_age_hours = 1 /\ LastAge > 1
    /\ last.n_before = 2 /\ get_cache_info.total_files = 1

\* C3: a get on an entry that is not expired and whose content fails to
\* deserialize (the set that wrote it failed part-way) returns absent without
\* raising and removes the entry, so that a get that follows finds no entry;
\* no get changes the entry of another key.
C3_SelfHealing ==
    /\ []((last.op = "get" /\ last.existed /\ ~LastHist.ok
              /\ LastAge <= last.max_age_hours)
          => (last.ret = Absent /\ last.exc = "none" /\ ~LastFile.exists))
    /\ []((last.op = "get" /\ ~last.existed)
          => (last.ret = Absent /\ last.exc = "none" /\ ~LastFile.exists))
    /\ [][\A k \in Keys :
            (last'.op = "get" /\ last'.key # k)
            => cache_dir'[_get_cache_key(k)] = cache_dir[_get_cache_key(k)]]_vars

\* A get found an unexpired, truncated entry and removed it while the entry of
\* the other key stayed.
C3_Witness ==
    /\ last.op = "get" /\ last.existed /\ ~LastHist.ok
    /\ LastAge <= last.max_age_hours
    /\ ~LastFile.exists /\ last.n_before = 2 /\ get_cache_info.total_files = 1

\* C4: set never raises; it returns False for a payload that is not
\* JSON-serializable and True for one that is.
C4_SetNeverRaises ==
    last.op = "set"
    => /\ last.exc = "none"
       /\ last.ret = PyBool(Serializable(LastHist.data))

\* C5, as claimed: get returns the payload of the most recent successful set
\* on the same key.
C5_MostRecentSuccessfulSet ==
    (last.op = "get" /\ LastHist.has_good) => last.ret = LastHist.good

\* C5, amended: get is decided by the most recent set on the same key, which
\* overwrites what earlier sets stored whether or not it succeeds: while that
\* entry is present at an age of at most max_age_hours, get returns the
\* payload of that set as JSON round-trips it if the set succeeded and absent
\* if it failed; a set, get or delete on one key changes the entry of no
\* other key.
C5_KeyAddressing ==
    /\ []((last.op = "get" /\ LastHist.has /\ last.existed
              /\ LastAge <= last.max_age_hours)
          => last.ret = IF LastHist.ok THEN AsJson(LastHist.data) ELSE Absent)
    /\ [][\A k \in Keys :
            (last'.op \in {"set", "get", "delete"} /\ last'.key # k)
            => /\ cache_dir'[_get_cache_key(k)] = cache_dir[_get_cache_key(k)]
               /\ hist'[k] = hist[k]]_vars

\* A get returned the payload of the latest set on its key, which had
\* overwritten an entry, while the other key held a different entry.
C5_Witness ==
    /\ last.op = "get" /\ last.existed /\ LastHist.ok
    /\ last.ret = LastHist.data
    /\ \E k \in Keys :
          /\ k # last.key
          /\ cache_dir[_get_cache_key(k)].exists
          /\ hist[k].ok
          /\ hist[k].data # LastHist.data

-----------------------------------------------------------------------------
(* Properties of the quota monitor.                                        *)

\* C7: a wait_if_needed whose check reports remaining < min_remaining and a
\* reset time after the time of the comparison returns True, and not before
\* (reset - now) + 5 seconds have passed since the comparison, hence after the
\* reset time.
C7_QuotaWait ==
    (call.op = "wait_if_needed" /\ call.ret # "none" /\ call.requests = 1
        /\ ~call.failed
        /\ call.rate_info.remaining < min_remaining
        /\ call.rate_info.reset - call.compared_at > 0)
    => /\ call.ret = "True"
       /\ call.returned_at - call.compared_at
              >= (call.rate_info.reset - call.compared_at) + 5
       /\ call.returned_at > call.rate_info.reset

\* With remaining = 50 and min_remaining = 100, a call whose reset time was
\* three seconds ahead returned True eight seconds later.
C7_Witness ==
    /\ call.op = "wait_if_needed" /\ call.ret = "True"
    /\ call.rate_info.remaining = 50 /\ min_remaining = 100
    /\ call.rate_info.reset - call.compared_at = 3
    /\ call.returned_at - call.compared_at = 8

\* C8: a wait_if_needed whose checked status has remaining >= min_remaining,
\* or a reset time not after the time of the comparison, returns False
\* without sleeping; a call that returns True has slept.
C8_NoNeedlessSleep ==
    /\ (call.op = "wait_if_needed" /\ call.requests = 1
           /\ (\/ call.rate_info.remaining >= min_remaining
               \/ call.rate_info.reset_datetime <= call.compared_at))
       => (call.ret = "False" /\ call.sleeps = 0 /\ pc = "idle"
              /\ call.returned_at = call.compared_at)
    /\ (call.op = "wait_if_needed" /\ call.ret = "True") => call.sleeps > 0
    /\ (call.op = "wait_if_needed" /\ call.ret = "False") => call.sleeps = 0

\* A call found remaining < min_remaining with the reset time already reached
\* when it compared, and returned False at once.
C8_Witness ==
    /\ call.op = "wait_if_needed" /\ call.requests = 1 /\ ~call.failed
    /\ call.rate_info.remaining < min_remaining
    /\ call.rate_info.reset_datetime = call.compared_at
    /\ call.ret = "False" /\ call.sleeps = 0

C11_CachedAfterEveryCheck ==
    call.op = "check_rate_limit"
    => /\ last_rate_info = call.rate_info
       /\ last_check = Some(call.checked_at)

\* C11, amended: after a check whose request succeeded, the cached status is
\* the status returned and _last_check is the time the check returned; a check
\* whose request failed returns the fallback status and leaves the cached
\* status and _last_check as they were before the call.
C11_CachedOnSuccess ==
    (call.op \in {"check_rate_limit", "wait_if_needed"} /\ call.requests = 1)
    => IF ~call.failed
       THEN /\ last_rate_info = call.rate_info
            /\ last_check = Some(call.checked_at)
       ELSE /\ last_rate_info = call.prev_rate_info
            /\ last_check = call.prev_check
            /\ call.rate_info = fallback_rate_info(call.checked_at)

\* A check failed after an earlier one had succeeded: the status it returned
\* is the fallback while the cached one is still the measured one.
C11_Witness ==
    /\ call.op = "check_rate_limit" /\ call.failed
    /\ last_rate_info.some /\ last_rate_info # call.rate_info
    /\ last_check.some /\ last_check.t < call.checked_at

-----------------------------------------------------------------------------
(* Properties of the retry policy.                                         *)

\* The wrapper has returned or raised.
WrapperDone == wrapper_pc = "done"

\* The invocations of the script that fail, among the first n.
FailsThrough(n) == \A i \in 1..n : wrapper.script[i] # "ok"

\* The first invocation among the first n that raises an HTTPError whose
\* status is not 403, or 0.
FirstHttpOther(n) ==
    IF \E i \in 1..n : wrapper.script[i] = "http_other"
    THEN CHOOSE i \in 1..n :
            /\ wrapper.script[i] = "http_other"
            /\ \A j \in 1..(i - 1) : wrapper.script[j] # "http_other"
    ELSE 0

RECURSIVE SumSeq(_)
SumSeq(xs) == IF xs = <<>> THEN 0 ELSE Head(xs) + SumSeq(Tail(xs))

\* C12: when the function raises the 403 error on its first k-1 invocations
\* and returns on the k-th, 1 <= k <= max_retries, the wrapper returns what
\* that invocation returned and has invoked the function exactly k times.
C12_RetrySuccess ==
    \A k \in 1..MaxRetries :
        (WrapperDone /\ k <= wrapper.max_retries
            /\ (\A i \in 1..(k - 1) : wrapper.script[i] = "403")
            /\ wrapper.script[k] = "ok")
        => /\ wrapper.status = "returned"
           /\ wrapper.value = k
           /\ wrapper.invocations = k

\* With max_retries = 3 the function failed twice with 403 and the third
\* invocation returned.
C12_Witness ==
    /\ WrapperDone /\ wrapper.max_retries = 3
    /\ wrapper.script[1] = "403" /\ wrapper.script[2] = "403" /\ wrapper.script[3] = "ok"
    /\ wrapper.status = "returned" /\ wrapper.value = 3 /\ wrapper.invocations = 3

C14_Backoff ==
    /\ \A i \in 1..Len(wrapper.sleeps) :
          /\ i <= wrapper.max_retries - 1
          /\ wrapper.script[i] \in {"403", "other"}
          /\ wrapper.sleeps[i] = IF wrapper.script[i] = "403"
                                 THEN wrapper.delay * 2 ^ (i - 1)
                                 ELSE wrapper.delay
    /\ Len(wrapper.sleeps) =
          IF wrapper.invocations = 0 THEN 0
          ELSE IF wrapper.status = "running" THEN wrapper.invocations
          ELSE IF wrapper.status = "returned" THEN wrapper.invocations - 1
          ELSE IF wrapper.raised.cls = "http_other" THEN wrapper.invocations - 1
          ELSE wrapper.max_retries - 1
    /\ (WrapperDone /\ wrapper.max_retries = 3 /\ wrapper.delay = 2
           /\ \A i \in 1..3 : wrapper.script[i] = "403")
       => SumSeq(wrapper.sleeps) = 6

\* Always-403 with max_retries = 3 and delay = 2: the wrapper slept 2, then 4,
\* and raised after the third attempt.
C14_Witness ==
    /\ WrapperDone /\ wrapper.max_retries = 3 /\ wrapper.delay = 2
    /\ \A i \in 1..3 : wrapper.script[i] = "403"
    /\ wrapper.sleeps = <<2, 4>> /\ wrapper.status = "raised"

-----------------------------------------------------------------------------
(* Properties of the cache across an interrupted run.                      *)

-----------------------------------------------------------------------------
(* Properties of the quota gate of the methods.                            *)

\* The positions of the requests among the events of the call.
RequestEvents == {i \in 1..Len(run.events) : run.events[i].e = "request"}

\* C16: in a call of one of the eight methods that send requests,
\* wait_if_needed is called, and has returned, before the first request; the
\* other methods send none.
C16_GateBeforeRequests ==
    /\ \A i \in RequestEvents :
          /\ run.op \in {"get_all_repos", "count_commits_last_year", "count_pull_requests",
                         "count_issues", "get_language_stats", "get_code_changes_stats",
                         "get_activity_heatmap", "update_profile_readme"}
          /\ \E j \in 1..(i - 1) :
                /\ run.events[j].e = "wait_if_needed"
                /\ run.events[j].at <= run.events[i].at
    /\ (RequestEvents # {} => call.op = "wait_if_needed" /\ call.ret # "none")

\* update_profile_readme sent its two requests after the call of
\* wait_if_needed.
C16_Witness ==
    /\ run.op = "update_profile_readme"
    /\ Len(run.events) = 3
    /\ run.events[1].e = "wait_if_needed"
    /\ run.events[2].e = "request" /\ run.events[3].e = "request"

\* C19: when the status read at the start of calculate_all_stats reports
\* remaining < min_remaining and a reset time in the future, the first
\* request of get_all_repos is sent after that reset time.
C19_SleepsBeforeListing ==
    (run.in_calculate /\ run.op = "get_all_repos" /\ RequestEvents # {}
        /\ ~run.status_failed
        /\ run.status.remaining < min_remaining
        /\ run.status.reset_datetime > run.status_at)
    => \A i \in RequestEvents : run.events[i].at > run.status.reset_datetime

-----------------------------------------------------------------------------
(* Properties of count_issues.                                             *)

-----------------------------------------------------------------------------
(* Properties of get_all_repos.                                            *)

\* The number of non-empty pages of an account with the repositories
\* 1..owned.
NonEmptyPages(owned) == (owned + PerPage - 1) \div PerPage

\* The pages requested by the current invocation are 1, 2, 3, ... in order
\* and none but the last was empty; a cold fetch that returns has requested
\* every non-empty page and the first empty one, and returns the
\* repositories of the non-empty pages in page order.
PaginationInOrder ==
    /\ \A i \in 1..Len(fetch.requested) :
          /\ fetch.requested[i] = i
          /\ i < Len(fetch.requested) => i <= NonEmptyPages(fetch.owned)
    /\ (fetch.pc = "done" /\ fetch.status = "returned" /\ fetch.cold)
       => /\ Len(fetch.requested) = NonEmptyPages(fetch.owned) + 1
          /\ fetch.value = ReposValue([i \in 1..fetch.owned |-> i])

\* C20: on a cold fetch get_all_repos requests the pages 1, 2, 3, ... in
\* order, stops at the first empty page and returns the non-empty pages
\* joined in page order; as the remote has an empty page, every call ends.
C20_Pagination ==
    /\ []PaginationInOrder
    /\ (fetch.pc \in {"invoke", "paging"}) ~> (fetch.pc = "done")

\* A cold fetch of three repositories in pages of two requested pages 1, 2
\* and 3 and returned the three.
C20_Witness ==
    /\ fetch.pc = "done" /\ fetch.status = "returned" /\ fetch.cold
    /\ fetch.owned = 3 /\ fetch.requested = <<1, 2, 3>>
    /\ fetch.value = ReposValue(<<1, 2, 3>>)

\* The entry of the repository list is one a cold fetch stored whole, and the
\* call in progress found it in the cache within its max-age.
FoundFreshEntry ==
    /\ fetch.cache_enabled /\ fetch.invocations >= 1
    /\ last.op = "get" /\ last.key = ReposKey /\ last.existed
    /\ hist[ReposKey].has /\ hist[ReposKey].ok
    /\ ~is_expired(last.at - hist[ReposKey].at, fetch.max_age_hours)

\* C21: with caching enabled, a get_all_repos that finds the list a cold
\* fetch stored, within the max-age, returns that list and sends no request
\* to the listing endpoint, whatever the list (the empty one included).
C21_RepoListCaching ==
    FoundFreshEntry
        => /\ fetch.pc = "done" /\ fetch.status = "returned"
           /\ fetch.value = hist[ReposKey].data
           /\ fetch.requested = <<>>

-----------------------------------------------------------------------------
(* Properties of count_pull_requests.                                      *)

\* C22: the total count_pull_requests reports is the number of pull requests
\* the account created in the repositories whose listing succeeded, however
\* many each repository holds.
C22_PullRequestsComplete ==
    (pulls.pc = "done" /\ ~pulls.failed_partway)
        => pulls.stats.total = pulls.created

-----------------------------------------------------------------------------
(* Properties of count_commits_last_year.                                  *)

\* C23: count_commits_last_year sends at most max_pages requests for a
\* repository, sends none after the first empty page, the first status other
\* than 200 or an exception, and returns the number of commits in the
\* non-empty pages it received with status 200.
C23_CommitCallBound ==
    /\ Len(commits.log) <= commits.max_pages
    /\ \A k \in 1..(Len(commits.log) - 1) :
          commits.log[k].kind = "200" /\ commits.log[k].n > 0
    /\ commits.pc = "done" => commits.total_commits = commits.received

\* With max_pages = 2, the second of two repositories answered two non-empty
\* pages and was left at the page cap, and the first one was counted too.
C23_Witness ==
    /\ commits.pc = "done" /\ commits.repos = 2 /\ commits.max_pages = 2
    /\ Len(commits.log) = 2
    /\ commits.log[2].kind = "200" /\ commits.log[2].n > 0
    /\ commits.total_commits > commits.log[1].n + commits.log[2].n

-----------------------------------------------------------------------------
(* Properties of the per-repository operations of calculate_all_stats.     *)

\* C24: a request exception, a status other than 200 or a malformed item met
\* for one repository leaves no per-repository operation and not
\* calculate_all_stats with an exception; the operation goes through every
\* repository and its result holds all the units of the repositories that
\* had no failure; calculate_all_stats returns after the last operation.
C24_FailureIsolation ==
    /\ agg.pc # "raised"
    /\ agg.pc = "returned" => agg.i = agg.repos /\ agg.result >= agg.clean
    /\ (agg.pc = "returned" /\ agg.seen = {}) => agg.result = agg.clean
    /\ agg.pc = "done" => agg.step = Len(Pipeline) /\ agg.i = agg.repos

\* calculate_all_stats returned after a run in which the first of two
\* repositories failed get_activity_heatmap, whose result holds the units of
\* the second, and each of the three failures was met.
C24_Witness ==
    /\ agg.pc = "done" /\ agg.repos = 2
    /\ agg.seen = {"request_exception", "non200", "malformed_item"}
    /\ agg.clean > 0 /\ agg.result = agg.clean

-----------------------------------------------------------------------------
(* Properties of update_profile_readme and of the main script.             *)

\* C25: update_profile_readme sends one read of the content endpoint and
\* then one write; the write carries the sha of the read when the read had
\* status 200 and no sha when it had another status or raised; a write that
\* fails is raised to the caller with no further request.
C25_PublishProtocol ==
    LET ev == publish.events
    IN  /\ Len(ev) <= 2
        /\ Len(ev) >= 1 => ev[1].method = "GET"
        /\ Len(ev) = 2
           => /\ ev[2].method = "PUT"
              /\ ev[2].sha # "" <=> ev[1].outcome = "200"
              /\ ev[1].outcome = "200" => ev[2].sha = publish.sha /\ publish.sha \in Shas
        /\ publish.pc = "done"
           => /\ Len(ev) = 2
              /\ publish.status = "raised" <=> ev[2].outcome \notin {"200", "201"}

\* The read had status 200, the write carried its sha and met a conflict,
\* which was raised.
C25_Witness ==
    /\ publish.pc = "done" /\ publish.status = "raised"
    /\ Len(publish.events) = 2
    /\ publish.events[1].outcome = "200"
    /\ publish.events[2] = Request("PUT", "3f2a", "409")

\* The run of main has rendered the README.
Rendered == main.pc # "idle" /\ main.early = "none"

\* C26: when main sends a publish request the rendered README is in the
\* local output file; when the publish fails main returns 1 and the file
\* holds the README; with --dry-run no publish request is sent and main
\* returns 0.
C26_LocalFallback ==
    /\ publish.pc # "idle" => main.output_file = main.readme_content
    /\ (main.pc = "exit" /\ publish.pc = "done" /\ publish.status = "raised")
       => main.exit_status = 1 /\ main.output_file = main.readme_content
    /\ main.dry_run => publish.pc = "idle" /\ publish.events = <<>>
    /\ (Rendered /\ main.dry_run /\ main.pc = "exit") => main.exit_status = 0


\* C27: a set that returns False on a key whose entry existed leaves no
\* readable entry: the get on that key that follows it returns absent
\* without raising, whatever its max_age_hours, and removes the entry, and
\* neither call changes the entry of another key.
C27_FailedSetLosesEntry ==
    /\ [][(last.op = "set" /\ last.ret = PyBool(FALSE)
              /\ last'.op = "get" /\ last'.key = last.key)
          => /\ last'.existed
             /\ last'.ret = Absent /\ last'.exc = "none"
             /\ ~cache_dir'[_get_cache_key(last.key)].exists
             /\ json_load(cache_dir[_get_cache_key(last.key)].text).ok = FALSE]_vars
    /\ [][\A k \in Keys :
            (last'.op \in {"set", "get"} /\ last'.key # k)
            => cache_dir'[_get_cache_key(k)] = cache_dir[_get_cache_key(k)]]_vars

\* The key held a payload, a set of a payload that is not serializable
\* returned False, and the get that followed found the entry, returned
\* absent and removed it while the entry of the other key stayed.
C27_Witness ==
    /\ last.op = "get" /\ last.existed /\ last.ret = Absent
    /\ LastHist.has /\ ~LastHist.ok /\ ~LastHist.interrupted
    /\ ~Serializable(LastHist.data)
    /\ LastHist.has_good /\ LastHist.good # LastHist.data
    /\ LastAge <= last.max_age_hours
    /\ ~LastFile.exists /\ last.n_before = 2 /\ get_cache_info.total_files = 1


\* The repositories of the pages 1..pages of an account, in page order.
RECURSIVE PagesJoined(_, _)
PagesJoined(owned, pages) ==
    IF pages = 0 THEN <<>>
    ELSE PagesJoined(owned, pages - 1) \o RemotePage(owned, pages)

\* The invocation in progress is one the retry policy made after a listing
\* request failed.
Reinvoked == fetch.attempt >= 1 /\ fetch.invocations = fetch.attempt + 1

\* C28: an invocation of get_all_repos that the retry policy makes after a
\* failed listing request starts at page 1 with an empty accumulator, which
\* at every moment holds the pages requested so far once each, and the list
\* returned is the account's repositories once each; the cache entry changes
\* only in the step that returns the whole list; wait_if_needed has been
\* called once for the call, however many attempts were made.
C28_RetryRestartsPagination ==
    /\ []((fetch.pc = "paging" /\ Reinvoked)
          => /\ fetch.page = Len(fetch.requested) + 1
             /\ fetch.repos = PagesJoined(fetch.owned, Len(fetch.requested)))
    /\ [][(fetch.pc = "invoke" /\ fetch.attempt >= 1 /\ fetch'.pc = "paging")
          => (fetch'.page = 1 /\ fetch'.repos = <<>> /\ fetch'.requested = <<>>)]_vars
    /\ []((fetch.pc = "done" /\ fetch.status = "returned" /\ fetch.cold)
          => fetch.value = ReposValue([i \in 1..fetch.owned |-> i]))
    /\ [][cache_dir' # cache_dir
          => /\ fetch'.pc = "done" /\ fetch'.status = "returned"
             /\ cache_dir'[_get_cache_key(ReposKey)].text
                    = json_dump(ReposValue([i \in 1..fetch.owned |-> i])).toks]_vars
    /\ [](fetch.pc # "idle" => fetch.gates = 1)

\* A first attempt at listing three repositories failed; the second attempt
\* requested pages 1, 2 and 3, returned the three repositories once each and
\* stored them, after one call of wait_if_needed.
C28_Witness ==
    /\ fetch.pc = "done" /\ fetch.status = "returned" /\ fetch.cold
    /\ fetch.attempt = 1 /\ fetch.invocations = 2 /\ fetch.gates = 1
    /\ fetch.owned = 3 /\ fetch.requested = <<1, 2, 3>>
    /\ fetch.value = ReposValue(<<1, 2, 3>>)
    /\ fetch.cache_enabled
    /\ json_load(cache_dir[_get_cache_key(ReposKey)].text).val = fetch.value


\* C29: in every result of count_pull_requests the total is the sum of the
\* open and the closed counts and the merged count is at most the total,
\* repositories whose processing failed part-way through their items
\* included.
C29_CounterConsistency ==
    pulls.pc = "done"
    => /\ pulls.stats.total = pulls.stats.open + pulls.stats.closed
       /\ pulls.stats.merged <= pulls.stats.total


\* C30: a call of the wrapper with max_retries >= 1 never invokes the
\* function more than max_retries times, and when it ends it has invoked it
\* at least once and either returns what the last invocation returned or
\* raises an exception; a call with max_retries = 0 ends without having
\* invoked the function, returns None and raises nothing.
C30_AttemptBudget ==
    /\ (wrapper.status # "none" /\ wrapper.max_retries >= 1)
       => wrapper.invocations <= wrapper.max_retries
    /\ (WrapperDone /\ wrapper.max_retries >= 1)
       => /\ wrapper.invocations >= 1
          /\ \/ /\ wrapper.status = "returned"
                /\ wrapper.script[wrapper.invocations] = "ok"
                /\ wrapper.value = wrapper.invocations
                /\ ~wrapper.raised.some
             \/ /\ wrapper.status = "raised"
                /\ wrapper.raised.some
                /\ wrapper.script[wrapper.invocations] # "ok"
    /\ (wrapper.status # "none" /\ wrapper.max_retries = 0)
       => /\ WrapperDone
          /\ wrapper.invocations = 0
          /\ wrapper.status = "returned" /\ wrapper.value = 0
          /\ ~wrapper.raised.some

\* With max_retries = 3 the function failed with an exception other than an
\* HTTPError, then with 403 twice, and the wrapper raised after the third
\* invocation.
C30_Witness ==
    /\ WrapperDone /\ wrapper.max_retries = 3
    /\ wrapper.script[1] = "other" /\ wrapper.script[2] = "403"
    /\ wrapper.script[3] = "403"
    /\ wrapper.invocations = 3 /\ wrapper.status = "raised" /\ wrapper.raised.some

=============================================================================
